---- MODULE Spec2Model ----
(***************************************************************************)
(* Model of the in-memory indexed store (src/storage/memoryStore.ts) and   *)
(* of the list and task repositories built on it                          *)
(* (src/repositories/listRepository.ts, src/controllers/index.ts).        *)
(*                                                                         *)
(* Maps and Sets of the program are insertion ordered, so they are        *)
(* modelled as sequences without duplicates.  Instants are integers,      *)
(* TicksPerDay of them to a UTC day; an absent optional date is NoDate.   *)
(* Strings that the code inspects (names, search terms) are sequences of  *)
(* one-character strings.  requests holds the service calls in flight:    *)
(* each is at one of its await points, and a step of the model is the     *)
(* code one call runs between two of its await points.                    *)
(***************************************************************************)
EXTENDS Integers, Sequences, FiniteSets, Bags, TLC

VARIABLES lists, tasks, tasksByListId, tasksByStatus, tasksByPriority,
          tasksByDeadlineDate, stats, now, result, requests, limiter, users

vars == <<lists, tasks, tasksByListId, tasksByStatus, tasksByPriority,
          tasksByDeadlineDate, stats, now, result, requests, limiter, users>>

(* the fields of the MemoryStore *)
storeVars == <<lists, tasks, tasksByListId, tasksByStatus, tasksByPriority,
               tasksByDeadlineDate, stats>>

(* the RateLimiter and the users of the UserRepository *)
otherVars == <<limiter, users>>

----------------------------------------------------------------------------
(* Bounds *)

maxSize == 3
MaxTasks == 2
TicksPerDay == 2
MaxDay == 1
MaxPatchFields == 2
MaxRequests == 2
MaxPage == 3
MaxClock == 1
MaxBulk == 3
MaxTime == 3
MaxWindowMs == 1
MaxLimit == 2
MaxUsers == 4

----------------------------------------------------------------------------
(* Value domains *)

NoDate == 0 - 1

PENDING == "pending"
COMPLETED == "completed"
TaskStatus == {PENDING, COMPLETED}

LOW == "low"
MEDIUM == "medium"
HIGH == "high"
TaskPriority == {LOW, MEDIUM, HIGH}

Instants == 0 .. (TicksPerDay * (MaxDay + 1) - 1)

Ids == 1 .. (maxSize + 1)

Range(seq) == { seq[i] : i \in 1 .. Len(seq) }

----------------------------------------------------------------------------
(* Strings *)

toLowerCase(str) ==
  [i \in 1 .. Len(str) |-> IF str[i] = "A" THEN "a"
                           ELSE IF str[i] = "B" THEN "b"
                           ELSE IF str[i] = "T" THEN "t" ELSE str[i]]

RECURSIVE trimStart(_)
trimStart(str) ==
  IF Len(str) > 0 /\ Head(str) = " " THEN trimStart(Tail(str)) ELSE str

RECURSIVE trimEnd(_)
trimEnd(str) ==
  IF Len(str) > 0 /\ str[Len(str)] = " "
  THEN trimEnd(SubSeq(str, 1, Len(str) - 1)) ELSE str

trim(str) == trimEnd(trimStart(str))

includes(str, searchTerm) ==
  \E i \in 0 .. (Len(str) - Len(searchTerm)) :
     SubSeq(str, i + 1, i + Len(searchTerm)) = searchTerm

----------------------------------------------------------------------------
(* Map and Set primitives *)

MapHas(map, id) == \E i \in 1 .. Len(map) : map[i].id = id

MapGet(map, id) == map[CHOOSE i \in 1 .. Len(map) : map[i].id = id]

MapSet(map, rec) ==
  IF MapHas(map, rec.id)
  THEN [i \in 1 .. Len(map) |-> IF map[i].id = rec.id THEN rec ELSE map[i]]
  ELSE Append(map, rec)

MapDelete(map, id) == SelectSeq(map, LAMBDA r : r.id # id)

SetAdd(set, x) == IF x \in Range(set) THEN set ELSE Append(set, x)

SetDelete(set, x) == SelectSeq(set, LAMBDA y : y # x)

IndexAdd(index, key, id) ==
  [k \in DOMAIN index \cup {key} |->
     IF k = key
     THEN SetAdd(IF key \in DOMAIN index THEN index[key] ELSE <<>>, id)
     ELSE index[k]]

IndexRemove_keepEmpty(index, key, id) ==
  IF key \notin DOMAIN index THEN index
  ELSE [index EXCEPT ![key] = SetDelete(@, id)]

IndexRemove(index, key, id) ==
  IF key \notin DOMAIN index THEN index
  ELSE IF Len(SetDelete(index[key], id)) = 0
       THEN [k \in DOMAIN index \ {key} |-> index[k]]
       ELSE [index EXCEPT ![key] = SetDelete(@, id)]

EmptyIndex == [k \in {} |-> <<>>]

----------------------------------------------------------------------------
(* MemoryStore: the store as a value, and its methods as operators that   *)
(* take a store and return the store they leave behind.                   *)

Store == [lists |-> lists, tasks |-> tasks,
          tasksByListId |-> tasksByListId,
          tasksByStatus |-> tasksByStatus,
          tasksByPriority |-> tasksByPriority,
          tasksByDeadlineDate |-> tasksByDeadlineDate,
          stats |-> stats]

(* the counters of MemoryStore.stats that follow the two maps;           *)
(* lastAccessed, operationsCount and memoryUsage are not modelled          *)
NoStats == [listsCount |-> 0, tasksCount |-> 0]

EmptyStore == [lists |-> <<>>, tasks |-> <<>>,
               tasksByListId |-> EmptyIndex,
               tasksByStatus |-> EmptyIndex,
               tasksByPriority |-> EmptyIndex,
               tasksByDeadlineDate |-> EmptyIndex,
               stats |-> NoStats]

formatDateKey(date) == date \div TicksPerDay

checkCapacity_offByOne(s) == Len(s.lists) + Len(s.tasks) <= maxSize

checkCapacity(s) == Len(s.lists) + Len(s.tasks) < maxSize

updateTaskIndexes_noPriority(s, task) ==
  [s EXCEPT
     !.tasksByListId = IndexAdd(@, task.list_id, task.id),
     !.tasksByStatus = IndexAdd(@, task.status, task.id),
     !.tasksByDeadlineDate =
        IF task.deadline # NoDate
        THEN IndexAdd(@, formatDateKey(task.deadline), task.id)
        ELSE @]

updateTaskIndexes(s, task) ==
  [s EXCEPT
     !.tasksByListId = IndexAdd(@, task.list_id, task.id),
     !.tasksByStatus = IndexAdd(@, task.status, task.id),
     !.tasksByPriority = IndexAdd(@, task.priority, task.id),
     !.tasksByDeadlineDate =
        IF task.deadline # NoDate
        THEN IndexAdd(@, formatDateKey(task.deadline), task.id)
        ELSE @]

removeTaskFromIndexes_keepStatus(s, task) ==
  [s EXCEPT
     !.tasksByListId = IndexRemove(@, task.list_id, task.id),
     !.tasksByPriority = IndexRemove(@, task.priority, task.id),
     !.tasksByDeadlineDate =
        IF task.deadline # NoDate
        THEN IndexRemove(@, formatDateKey(task.deadline), task.id)
        ELSE @]

removeTaskFromIndexes(s, task) ==
  [s EXCEPT
     !.tasksByListId = IndexRemove(@, task.list_id, task.id),
     !.tasksByStatus = IndexRemove(@, task.status, task.id),
     !.tasksByPriority = IndexRemove(@, task.priority, task.id),
     !.tasksByDeadlineDate =
        IF task.deadline # NoDate
        THEN IndexRemove(@, formatDateKey(task.deadline), task.id)
        ELSE @]

updateListTaskCount_increment(s, listId) ==
  IF MapHas(s.lists, listId)
  THEN [s EXCEPT !.lists =
          MapSet(@, [MapGet(s.lists, listId) EXCEPT
                       !.tasks_count = @ + 1,
                       !.updated_at = now])]
  ELSE s

updateListTaskCount(s, listId) ==
  IF MapHas(s.lists, listId)
  THEN [s EXCEPT !.lists =
          MapSet(@, [MapGet(s.lists, listId) EXCEPT
                       !.tasks_count =
                          IF listId \in DOMAIN s.tasksByListId
                          THEN Len(s.tasksByListId[listId]) ELSE 0,
                       !.updated_at = now])]
  ELSE s

MemoryStore_createList_noCheck(s, list) ==
  [s |-> [s EXCEPT !.lists = MapSet(@, list),
                   !.stats.listsCount = @ + 1], err |-> "none"]

MemoryStore_createList(s, list) ==
  IF ~checkCapacity(s)
  THEN [s |-> s, err |-> "capacity"]
  ELSE [s |-> [s EXCEPT !.lists = MapSet(@, list),
                        !.stats.listsCount = @ + 1], err |-> "none"]

MemoryStore_updateList(s, id, updates) ==
  IF ~MapHas(s.lists, id)
  THEN [s |-> s, ok |-> FALSE]
  ELSE LET existingList == MapGet(s.lists, id)
           updatedList ==
             [f \in DOMAIN existingList |->
                IF f = "id" THEN id
                ELSE IF f = "updated_at" THEN now
                ELSE IF f \in DOMAIN updates THEN updates[f]
                ELSE existingList[f]]
       IN [s |-> [s EXCEPT !.lists = MapSet(@, updatedList)], ok |-> TRUE]

MemoryStore_createTask_checkLast(s, task) ==
  [s |-> updateListTaskCount(
           updateTaskIndexes([s EXCEPT !.tasks = MapSet(@, task),
                                           !.stats.tasksCount = @ + 1],
                                  task),
           task.list_id),
   err |-> IF ~checkCapacity(s) THEN "capacity" ELSE "none"]

MemoryStore_createTask(s, task) ==
  IF ~checkCapacity(s)
  THEN [s |-> s, err |-> "capacity"]
  ELSE [s |-> updateListTaskCount(
                updateTaskIndexes([s EXCEPT !.tasks = MapSet(@, task),
                                           !.stats.tasksCount = @ + 1],
                                  task),
                task.list_id),
        err |-> "none"]

setCompletedAt_always(existingTask, updates, merged) ==
  LET hasStatus == "status" \in DOMAIN updates
      marked ==
        IF hasStatus /\ updates.status = COMPLETED
        THEN [merged EXCEPT !.completed_at = now]
        ELSE merged
  IN IF hasStatus /\ updates.status = PENDING
     THEN [marked EXCEPT !.completed_at = NoDate]
     ELSE marked

setCompletedAt_keepOnPending(existingTask, updates, merged) ==
  IF "status" \in DOMAIN updates /\ updates.status = COMPLETED
     /\ existingTask.status # COMPLETED
  THEN [merged EXCEPT !.completed_at = now]
  ELSE merged

(* the two status branches of updateTask, applied to the merged record *)
setCompletedAt(existingTask, updates, merged) ==
  LET hasStatus == "status" \in DOMAIN updates
      marked ==
        IF hasStatus /\ updates.status = COMPLETED
           /\ existingTask.status # COMPLETED
        THEN [merged EXCEPT !.completed_at = now]
        ELSE merged
  IN IF hasStatus /\ updates.status = PENDING
     THEN [marked EXCEPT !.completed_at = NoDate]
     ELSE marked

MemoryStore_updateTask_countAlways(s, id, updates) ==
  IF ~MapHas(s.tasks, id)
  THEN [s |-> s, ok |-> FALSE]
  ELSE LET existingTask == MapGet(s.tasks, id)
           s1 == removeTaskFromIndexes(s, existingTask)
           merged ==
             [f \in DOMAIN existingTask |->
                IF f = "id" THEN id
                ELSE IF f = "updated_at" THEN now
                ELSE IF f \in DOMAIN updates THEN updates[f]
                ELSE existingTask[f]]
           updatedTask == setCompletedAt(existingTask, updates, merged)
           s2 == updateTaskIndexes([s1 EXCEPT !.tasks = MapSet(@, updatedTask)],
                                   updatedTask)
       IN [s |-> updateListTaskCount(
                   updateListTaskCount(s2, existingTask.list_id),
                   updatedTask.list_id),
           ok |-> TRUE]

MemoryStore_updateTask_patchId(s, id, updates) ==
  IF ~MapHas(s.tasks, id)
  THEN [s |-> s, ok |-> FALSE]
  ELSE LET existingTask == MapGet(s.tasks, id)
           s1 == removeTaskFromIndexes(s, existingTask)
           merged ==
             [f \in DOMAIN existingTask |->
                IF f = "updated_at" THEN now
                ELSE IF f \in DOMAIN updates THEN updates[f]
                ELSE existingTask[f]]
           updatedTask == setCompletedAt(existingTask, updates, merged)
           stored == [i \in 1 .. Len(s.tasks) |->
                        IF s.tasks[i].id = id THEN updatedTask ELSE s.tasks[i]]
       IN [s |-> updateTaskIndexes([s1 EXCEPT !.tasks = stored], updatedTask),
           ok |-> TRUE]

MemoryStore_updateTask(s, id, updates) ==
  IF ~MapHas(s.tasks, id)
  THEN [s |-> s, ok |-> FALSE]
  ELSE LET existingTask == MapGet(s.tasks, id)
           s1 == removeTaskFromIndexes(s, existingTask)
           merged ==
             [f \in DOMAIN existingTask |->
                IF f = "id" THEN id
                ELSE IF f = "updated_at" THEN now
                ELSE IF f \in DOMAIN updates THEN updates[f]
                ELSE existingTask[f]]
           updatedTask == setCompletedAt(existingTask, updates, merged)
           s2 == updateTaskIndexes([s1 EXCEPT !.tasks = MapSet(@, updatedTask)],
                                   updatedTask)
           s3 == IF "list_id" \in DOMAIN updates
                    /\ updates.list_id # existingTask.list_id
                 THEN updateListTaskCount(
                        updateListTaskCount(s2, existingTask.list_id),
                        updates.list_id)
                 ELSE s2
       IN [s |-> s3, ok |-> TRUE]

MemoryStore_deleteTask_deferCount(s, id) ==
  IF ~MapHas(s.tasks, id)
  THEN [s |-> s, ok |-> FALSE]
  ELSE LET task == MapGet(s.tasks, id)
           s1 == removeTaskFromIndexes(s, task)
       IN [s |-> [s1 EXCEPT !.tasks = MapDelete(@, id),
                            !.stats.tasksCount = @ - 1], ok |-> TRUE]

MemoryStore_deleteTask(s, id) ==
  IF ~MapHas(s.tasks, id)
  THEN [s |-> s, ok |-> FALSE]
  ELSE LET task == MapGet(s.tasks, id)
           s1 == removeTaskFromIndexes(s, task)
           s2 == [s1 EXCEPT !.tasks = MapDelete(@, id),
                            !.stats.tasksCount = @ - 1]
       IN [s |-> updateListTaskCount(s2, task.list_id), ok |-> TRUE]

(* for (const taskId of taskIds) this.deleteTask(taskId): the iterator of *)
(* a Set walks the entries in insertion order and passes over an entry    *)
(* that was deleted before it is reached; entries holds the positions of  *)
(* the Set when the loop starts, and the live Set is the bucket of id.    *)
RECURSIVE deleteListLoop(_, _, _, _)
deleteListLoop(s, id, entries, i) ==
  IF i > Len(entries) THEN s
  ELSE IF id \in DOMAIN s.tasksByListId
          /\ entries[i] \in Range(s.tasksByListId[id])
       THEN deleteListLoop(MemoryStore_deleteTask(s, entries[i]).s,
                           id, entries, i + 1)
       ELSE deleteListLoop(s, id, entries, i + 1)

RECURSIVE deleteListLoop_byPosition(_, _, _)
deleteListLoop_byPosition(s, id, i) ==
  IF id \notin DOMAIN s.tasksByListId \/ i > Len(s.tasksByListId[id]) THEN s
  ELSE deleteListLoop_byPosition(
         MemoryStore_deleteTask(s, s.tasksByListId[id][i]).s, id, i + 1)

MemoryStore_deleteList_byPosition(s, id, deleteAssociatedTasks) ==
  IF ~MapHas(s.lists, id)
  THEN [s |-> s, ok |-> FALSE]
  ELSE LET s1 == IF deleteAssociatedTasks
                 THEN deleteListLoop_byPosition(s, id, 1)
                 ELSE s
       IN [s |-> [s1 EXCEPT !.lists = MapDelete(@, id),
                            !.stats.listsCount = @ - 1], ok |-> TRUE]

MemoryStore_deleteList_keepCount(s, id, deleteAssociatedTasks) ==
  IF ~MapHas(s.lists, id)
  THEN [s |-> s, ok |-> FALSE]
  ELSE LET s1 == IF deleteAssociatedTasks /\ id \in DOMAIN s.tasksByListId
                 THEN deleteListLoop(s, id, s.tasksByListId[id], 1)
                 ELSE s
       IN [s |-> [s1 EXCEPT !.lists = MapDelete(@, id)], ok |-> TRUE]

MemoryStore_deleteList_noCheck(s, id, deleteAssociatedTasks) ==
  LET s1 == IF deleteAssociatedTasks /\ id \in DOMAIN s.tasksByListId
            THEN deleteListLoop(s, id, s.tasksByListId[id], 1)
            ELSE s
  IN [s |-> [s1 EXCEPT !.lists = MapDelete(@, id),
                            !.stats.listsCount = @ - 1], ok |-> TRUE]

MemoryStore_deleteList(s, id, deleteAssociatedTasks) ==
  IF ~MapHas(s.lists, id)
  THEN [s |-> s, ok |-> FALSE]
  ELSE LET s1 == IF deleteAssociatedTasks /\ id \in DOMAIN s.tasksByListId
                 THEN deleteListLoop(s, id, s.tasksByListId[id], 1)
                 ELSE s
       IN [s |-> [s1 EXCEPT !.lists = MapDelete(@, id),
                            !.stats.listsCount = @ - 1], ok |-> TRUE]

----------------------------------------------------------------------------
(* generateId returns a UUID no record carries: the least identifier that *)
(* no stored record has and no stored record or bucket refers to.         *)

generateListId(s) ==
  CHOOSE n \in Ids :
    /\ ~MapHas(s.lists, n)
    /\ n \notin DOMAIN s.tasksByListId
    /\ \A m \in 1 .. (n - 1) :
         MapHas(s.lists, m) \/ m \in DOMAIN s.tasksByListId

generateTaskId(s) ==
  CHOOSE n \in Ids :
    /\ ~MapHas(s.tasks, n)
    /\ \A m \in 1 .. (n - 1) : MapHas(s.tasks, m)

----------------------------------------------------------------------------
(* ListRepository and TaskRepository: a call takes the store and returns  *)
(* the store it leaves (s), how it ended (err), the record it was about   *)
(* (id), whether it went through to a change of the store (flag; for     *)
(* deleteList its deleteAssociatedTasks argument) and, for deleteList,    *)
(* the number of tasks it found in the list (n).                          *)

Outcome(s, err, id, flag) ==
  [s |-> s, err |-> err, id |-> id, flag |-> flag, n |-> 0]

ListRepository_createList_noCheck(s, input) ==
  LET list == [id |-> generateListId(s),
               name |-> trim(input.name),
               description |-> IF Len(input.description) > 0
                               THEN trim(input.description) ELSE <<>>,
               tasks_count |-> 0,
               created_at |-> now,
               updated_at |-> now]
      r == MemoryStore_createList(s, list)
  IN Outcome(r.s, r.err, list.id, TRUE)

ListRepository_createList(s, input) ==
  LET list == [id |-> generateListId(s),
               name |-> trim(input.name),
               description |-> IF Len(input.description) > 0
                               THEN trim(input.description) ELSE <<>>,
               tasks_count |-> 0,
               created_at |-> now,
               updated_at |-> now]
      isDuplicate ==
        \E i \in 1 .. Len(s.lists) :
           toLowerCase(s.lists[i].name) = toLowerCase(list.name)
      r == MemoryStore_createList(s, list)
  IN IF isDuplicate THEN Outcome(s, "duplicate", 0, FALSE)
     ELSE Outcome(r.s, r.err, list.id, TRUE)

ListRepository_updateList(s, id, input) ==
  LET trimmedName == trim(input.name)
      isDuplicate ==
        /\ Len(input.name) > 0
        /\ \E i \in 1 .. Len(s.lists) :
              /\ s.lists[i].id # id
              /\ toLowerCase(s.lists[i].name) = toLowerCase(trimmedName)
      present == { f \in {"name", "description"} : Len(input[f]) > 0 }
      updateData ==
        [f \in present \cup {"updated_at"} |->
           IF f = "updated_at" THEN now ELSE trim(input[f])]
      r == MemoryStore_updateList(s, id, updateData)
  IN IF ~MapHas(s.lists, id) THEN Outcome(s, "notfound", id, FALSE)
     ELSE IF isDuplicate THEN Outcome(s, "duplicate", id, FALSE)
     ELSE Outcome(r.s, IF r.ok THEN "none" ELSE "notfound", id, TRUE)

(* Array.from(taskIds).map(id => tasks.get(id)).filter(defined) *)
tasksOfIds(s, taskIds) ==
  LET found == SelectSeq(taskIds, LAMBDA id : MapHas(s.tasks, id))
  IN [i \in 1 .. Len(found) |-> MapGet(s.tasks, found[i])]

MemoryStore_getTasksByListId(s, listId) ==
  IF listId \notin DOMAIN s.tasksByListId THEN <<>>
  ELSE tasksOfIds(s, s.tasksByListId[listId])

ListRepository_deleteList(s, id, deleteAssociatedTasks) ==
  LET tasksCount == Len(MemoryStore_getTasksByListId(s, id))
      r == MemoryStore_deleteList(s, id, deleteAssociatedTasks)
  IN IF ~MapHas(s.lists, id)
     THEN Outcome(s, "notfound", id, deleteAssociatedTasks)
     ELSE [Outcome(r.s, IF r.ok THEN "none" ELSE "notfound", id,
                   deleteAssociatedTasks) EXCEPT !.n = tasksCount]

TaskRepository_createTask_noListCheck(s, input) ==
  LET task == [id |-> generateTaskId(s),
               list_id |-> input.list_id,
               title |-> trim(input.title),
               deadline |-> input.deadline,
               priority |-> IF input.priority = "" THEN MEDIUM
                            ELSE input.priority,
               status |-> PENDING,
               completed_at |-> NoDate,
               created_at |-> now,
               updated_at |-> now]
      r == MemoryStore_createTask(s, task)
  IN Outcome(r.s, r.err, task.id, TRUE)

TaskRepository_createTask(s, input) ==
  LET task == [id |-> generateTaskId(s),
               list_id |-> input.list_id,
               title |-> trim(input.title),
               deadline |-> input.deadline,
               priority |-> IF input.priority = "" THEN MEDIUM
                            ELSE input.priority,
               status |-> PENDING,
               completed_at |-> NoDate,
               created_at |-> now,
               updated_at |-> now]
      r == MemoryStore_createTask(s, task)
  IN IF ~MapHas(s.lists, input.list_id) THEN Outcome(s, "nolist", 0, FALSE)
     ELSE Outcome(r.s, r.err, task.id, TRUE)

TaskRepository_updateTask(s, id, input) ==
  LET existingTask == MapGet(s.tasks, id)
      listChanged == input.list_id # 0 /\ input.list_id # existingTask.list_id
      present ==
        { f \in {"title", "deadline", "priority", "status", "list_id"} :
            CASE f = "title" -> Len(input.title) > 0
              [] f = "deadline" -> input.deadline # NoDate
              [] f = "priority" -> input.priority # ""
              [] f = "status" -> input.status # ""
              [] f = "list_id" -> input.list_id # 0 }
      updateData ==
        [f \in present \cup {"updated_at"} |->
           IF f = "updated_at" THEN now
           ELSE IF f = "title" THEN trim(input.title)
           ELSE input[f]]
      r == MemoryStore_updateTask(s, id, updateData)
  IN IF ~MapHas(s.tasks, id) THEN Outcome(s, "notfound", id, FALSE)
     ELSE IF listChanged /\ ~MapHas(s.lists, input.list_id)
     THEN Outcome(s, "nolist", id, FALSE)
     ELSE Outcome(r.s, IF r.ok THEN "none" ELSE "notfound", id, TRUE)

TaskRepository_deleteTask(s, id) ==
  LET r == MemoryStore_deleteTask(s, id)
  IN IF ~MapHas(s.tasks, id) THEN Outcome(s, "notfound", id, FALSE)
     ELSE Outcome(r.s, IF r.ok THEN "none" ELSE "notfound", id, TRUE)

TaskRepository_completeTask(s, id) ==
  LET existingTask == MapGet(s.tasks, id)
      updateData == [status |-> COMPLETED, completed_at |-> now,
                     updated_at |-> now]
      r == MemoryStore_updateTask(s, id, updateData)
  IN IF ~MapHas(s.tasks, id) THEN Outcome(s, "notfound", id, FALSE)
     ELSE IF existingTask.status = COMPLETED
     THEN Outcome(s, "none", id, FALSE)
     ELSE Outcome(r.s, IF r.ok THEN "none" ELSE "notfound", id, TRUE)

TaskRepository_uncompleteTask(s, id) ==
  LET existingTask == MapGet(s.tasks, id)
      carried ==
        { f \in DOMAIN existingTask :
            /\ f # "completed_at"
            /\ (f = "deadline" => existingTask.deadline # NoDate) }
      taskWithoutCompletedAt ==
        [f \in carried |->
           IF f = "status" THEN PENDING
           ELSE IF f = "updated_at" THEN now
           ELSE existingTask[f]]
      r == MemoryStore_updateTask(s, id, taskWithoutCompletedAt)
  IN IF ~MapHas(s.tasks, id) THEN Outcome(s, "notfound", id, FALSE)
     ELSE IF existingTask.status = PENDING
     THEN Outcome(s, "none", id, FALSE)
     ELSE Outcome(r.s, IF r.ok THEN "none" ELSE "notfound", id, TRUE)

----------------------------------------------------------------------------
(* Queries.  An absent limit or offset is NoNumber; an absent filter      *)
(* field is 0, "", NoDate or the empty string; an absent sort has the     *)
(* field "".  Stored tasks carry no description in this model, so the     *)
(* search of applyFilters matches on titles.                              *)

NoNumber == 0 - 1

NoSort == [field |-> "", order |-> ""]

NoFilters == [list_id |-> 0, status |-> "", priority |-> "",
              deadline_from |-> NoDate, deadline_to |-> NoDate,
              search |-> <<>>]

MemoryStore_getAllLists(s) == s.lists

MemoryStore_getAllTasks(s) == s.tasks

MemoryStore_getTasksByStatus(s, status) ==
  IF status \notin DOMAIN s.tasksByStatus THEN <<>>
  ELSE tasksOfIds(s, s.tasksByStatus[status])

(* the while loop of getTasksByDeadlineRange: currentDate steps by one    *)
(* day (setDate(getDate() + 1), days of equal length) from fromDate until *)
(* it passes toDate, and each step takes the whole bucket of its day      *)
MemoryStore_getTasksByPriority(s, priority) ==
  IF priority \notin DOMAIN s.tasksByPriority THEN <<>>
  ELSE tasksOfIds(s, s.tasksByPriority[priority])

RECURSIVE deadlineRangeLoop(_, _, _)
deadlineRangeLoop(s, currentDate, toDate) ==
  IF ~(currentDate <= toDate) THEN <<>>
  ELSE LET dateKey == formatDateKey(currentDate)
           found == IF dateKey \in DOMAIN s.tasksByDeadlineDate
                    THEN tasksOfIds(s, s.tasksByDeadlineDate[dateKey])
                    ELSE <<>>
       IN found \o deadlineRangeLoop(s, currentDate + TicksPerDay, toDate)

MemoryStore_getTasksByDeadlineRange(s, fromDate, toDate) ==
  deadlineRangeLoop(s, fromDate, toDate)

(* String.localeCompare on the characters of the model: letters before    *)
(* case, a blank before every letter, lower case before upper case        *)
CharRank(c) ==
  CASE c = " " -> 0
    [] c \in {"a", "A"} -> 1
    [] c \in {"b", "B"} -> 2
    [] OTHER -> 3

RECURSIVE compareLetters(_, _)
compareLetters(x, y) ==
  IF Len(x) = 0 /\ Len(y) = 0 THEN 0
  ELSE IF Len(x) = 0 THEN -1
  ELSE IF Len(y) = 0 THEN 1
  ELSE IF CharRank(Head(x)) < CharRank(Head(y)) THEN -1
  ELSE IF CharRank(Head(x)) > CharRank(Head(y)) THEN 1
  ELSE compareLetters(Tail(x), Tail(y))

RECURSIVE compareCase(_, _)
compareCase(x, y) ==
  IF Len(x) = 0 \/ Len(y) = 0 THEN 0
  ELSE IF Head(x) = Head(y) THEN compareCase(Tail(x), Tail(y))
  ELSE IF Head(x) = toLowerCase(x)[1] THEN -1 ELSE 1

localeCompare(x, y) ==
  IF compareLetters(x, y) # 0 THEN compareLetters(x, y)
  ELSE compareCase(x, y)

(* localeCompare on the two status words: "completed" before "pending" *)
localeCompareStatus(a, b) ==
  IF a = b THEN 0 ELSE IF a = COMPLETED THEN -1 ELSE 1

(* Array.prototype.sort: stable, by a comparator that is a preorder;     *)
(* compareFn[j][i] is the comparator applied to array[j] and array[i]    *)
ArraySort(array, compareFn) ==
  LET n == Len(array)
      place(i) ==
        1 + Cardinality({ j \in 1 .. n :
                            \/ compareFn[j][i] < 0
                            \/ /\ compareFn[j][i] = 0
                               /\ j < i })
  IN [k \in 1 .. n |-> array[CHOOSE i \in 1 .. n : place(i) = k]]

(* Array.prototype.slice(start, end) for 0 <= start <= end *)
slice(array, start, end) ==
  IF start >= Len(array) THEN <<>>
  ELSE SubSeq(array, start + 1, IF end < Len(array) THEN end ELSE Len(array))

paginate(array, limit, offset) ==
  IF limit # NoNumber /\ offset # NoNumber
  THEN slice(array, offset, offset + limit)
  ELSE array

applyFilters(taskArray, filters) ==
  SelectSeq(taskArray, LAMBDA task :
    /\ ~(filters.list_id # 0 /\ task.list_id # filters.list_id)
    /\ ~(filters.status # "" /\ task.status # filters.status)
    /\ ~(filters.priority # "" /\ task.priority # filters.priority)
    /\ ~(/\ filters.deadline_from # NoDate
         /\ task.deadline # NoDate
         /\ task.deadline < filters.deadline_from)
    /\ ~(/\ filters.deadline_to # NoDate
         /\ task.deadline # NoDate
         /\ task.deadline > filters.deadline_to)
    /\ ~(/\ Len(filters.search) > 0
         /\ ~includes(toLowerCase(task.title), toLowerCase(filters.search))))

priorityOrder(priority) ==
  CASE priority = HIGH -> 3
    [] priority = MEDIUM -> 2
    [] priority = LOW -> 1

compareTasks_lexicalPriority(a, b, field) ==
  CASE field = "priority" ->
         (CASE a.priority = HIGH -> 1 [] a.priority = LOW -> 2 [] OTHER -> 3)
         - (CASE b.priority = HIGH -> 1 [] b.priority = LOW -> 2 [] OTHER -> 3)
    [] OTHER -> a.created_at - b.created_at

(* the comparison of sortTasks before the order is applied *)
compareTasks(a, b, field) ==
  CASE field = "title" -> localeCompare(a.title, b.title)
    [] field = "created_at" -> a.created_at - b.created_at
    [] field = "updated_at" -> a.updated_at - b.updated_at
    [] field = "deadline" ->
         IF a.deadline = NoDate /\ b.deadline = NoDate THEN 0
         ELSE IF a.deadline = NoDate THEN 1
         ELSE IF b.deadline = NoDate THEN -1
         ELSE a.deadline - b.deadline
    [] field = "priority" -> priorityOrder(a.priority) - priorityOrder(b.priority)
    [] field = "status" -> localeCompareStatus(a.status, b.status)
    [] OTHER -> a.created_at - b.created_at

sortTasks(taskArray, sort) ==
  ArraySort(taskArray,
            [a \in 1 .. Len(taskArray) |-> [b \in 1 .. Len(taskArray) |->
               IF sort.order = "desc"
               THEN 0 - compareTasks(taskArray[a], taskArray[b], sort.field)
               ELSE compareTasks(taskArray[a], taskArray[b], sort.field)]])

compareLists(a, b, field) ==
  CASE field = "name" -> localeCompare(a.name, b.name)
    [] field = "created_at" -> a.created_at - b.created_at
    [] field = "updated_at" -> a.updated_at - b.updated_at
    [] field = "tasks_count" -> a.tasks_count - b.tasks_count
    [] OTHER -> a.created_at - b.created_at

sortLists(listArray, sort) ==
  ArraySort(listArray,
            [a \in 1 .. Len(listArray) |-> [b \in 1 .. Len(listArray) |->
               IF sort.order = "desc"
               THEN 0 - compareLists(listArray[a], listArray[b], sort.field)
               ELSE compareLists(listArray[a], listArray[b], sort.field)]])

(* if (sort) ... else the default of the query *)
sortOrDefault(sort, field, order) ==
  IF sort = NoSort THEN [field |-> field, order |-> order] ELSE sort

(* the part the four task queries share: filter, count, sort, slice *)
queryTasks(found, filters, sort, limit, offset) ==
  LET filtered == applyFilters(found, filters)
      filteredTotal == Len(filtered)
  IN [items |-> paginate(sortTasks(filtered, sort), limit, offset),
      total |-> filteredTotal]

TaskRepository_getAllTasks(s, filters, sort, limit, offset) ==
  queryTasks(MemoryStore_getAllTasks(s), filters,
             sortOrDefault(sort, "created_at", "desc"), limit, offset)

TaskRepository_getTasksByListId(s, listId, filters, sort, limit, offset) ==
  queryTasks(MemoryStore_getTasksByListId(s, listId), filters,
             sortOrDefault(sort, "created_at", "desc"), limit, offset)

TaskRepository_getTasksByStatus(s, status, filters, sort, limit, offset) ==
  queryTasks(MemoryStore_getTasksByStatus(s, status), filters,
             sortOrDefault(sort, "created_at", "desc"), limit, offset)

TaskRepository_getTasksByDeadlineRange(s, fromDate, toDate, filters, sort, limit, offset) ==
  queryTasks(MemoryStore_getTasksByDeadlineRange(s, fromDate, toDate), filters,
             sortOrDefault(sort, "deadline", "asc"), limit, offset)

(* total is taken from the stored lists before the search is applied *)
ListRepository_getAllLists(s, filters, sort, limit, offset) ==
  LET all == MemoryStore_getAllLists(s)
      total == Len(all)
      searchTerm == toLowerCase(filters.search)
      filtered ==
        IF Len(filters.search) > 0
        THEN SelectSeq(all, LAMBDA list :
               \/ includes(toLowerCase(list.name), searchTerm)
               \/ /\ Len(list.description) > 0
                  /\ includes(toLowerCase(list.description), searchTerm))
        ELSE all
      sorted == sortLists(filtered, sortOrDefault(sort, "created_at", "desc"))
  IN [items |-> paginate(sorted, limit, offset), total |-> total]

----------------------------------------------------------------------------
(* Inputs of the calls *)

Titles == { <<"t", " ">> }

(* the identifiers a caller can name: those of the stored records and one *)
(* that no record has                                                      *)
ListIdInputs ==
  { lists[i].id : i \in 1 .. Len(lists) } \cup {generateListId(Store)}

TaskIdInputs ==
  { tasks[i].id : i \in 1 .. Len(tasks) } \cup {generateTaskId(Store)}

CreateListInputs(names, descriptions) ==
  [name : names, description : descriptions \cup {<<>>}]

UpdateListInputs(names, descriptions) ==
  [name : names \cup {<<>>}, description : descriptions \cup {<<>>}]

CreateTaskInputs(deadlines) ==
  [list_id : ListIdInputs, title : Titles, deadline : deadlines \cup {NoDate},
   priority : TaskPriority \cup {""}]

PatchSize(input) ==
  (IF Len(input.title) > 0 THEN 1 ELSE 0)
  + (IF input.deadline # NoDate THEN 1 ELSE 0)
  + (IF input.priority # "" THEN 1 ELSE 0)
  + (IF input.status # "" THEN 1 ELSE 0)
  + (IF input.list_id # 0 THEN 1 ELSE 0)

UpdateTaskInputs(deadlines) ==
  { input \in [title : {<<>>, <<"t", " ">>},
               deadline : deadlines \cup {NoDate},
               priority : TaskPriority \cup {""},
               status : TaskStatus \cup {""},
               list_id : ListIdInputs \cup {0}] :
      PatchSize(input) <= MaxPatchFields }

----------------------------------------------------------------------------
(* What a call leaves behind: the store, and for an observed call its     *)
(* outcome in result.                                                      *)

Res(op, err, id, flag, n) ==
  [op |-> op, err |-> err, id |-> id, flag |-> flag, n |-> n]

Install(s) ==
  /\ lists' = s.lists
  /\ tasks' = s.tasks
  /\ tasksByListId' = s.tasksByListId
  /\ tasksByStatus' = s.tasksByStatus
  /\ tasksByPriority' = s.tasksByPriority
  /\ tasksByDeadlineDate' = s.tasksByDeadlineDate
  /\ stats' = s.stats
  /\ UNCHANGED otherVars

NoResult == Res("none", "none", 0, FALSE, 0)

(* no service call in flight *)
NoRequests == EmptyBag

(* a RateLimiter that is not part of the run *)
NoLimiter == [options |-> [windowMs |-> 0, maxRequests |-> 0,
                           skipSuccessfulRequests |-> FALSE,
                           skipFailedRequests |-> FALSE],
              store |-> <<>>]

Returns(o) ==
  Install(o.s) /\ result' = NoResult /\ UNCHANGED <<now, requests>>

Observed(op, o) ==
  /\ Install(o.s)
  /\ result' = Res(op, o.err, o.id, o.flag, o.n)
  /\ UNCHANGED <<now, requests>>

----------------------------------------------------------------------------
(* Spec: the store behind the repositories, driven by any sequence of     *)
(* calls, list deletion cascading.  Time stands still, names differ in    *)
(* more than case, and deadlines fall on the first instant of a day.      *)

StoreNames == { <<"a">>, <<" ", "b">> }

StoreDeadlines == { d \in Instants : d % TicksPerDay = 0 }

Init ==
  /\ lists = <<>>
  /\ tasks = <<>>
  /\ tasksByListId = EmptyIndex
  /\ tasksByStatus = EmptyIndex
  /\ tasksByPriority = EmptyIndex
  /\ tasksByDeadlineDate = EmptyIndex
  /\ stats = NoStats
  /\ now = 0
  /\ result = NoResult
  /\ requests = NoRequests
  /\ limiter = NoLimiter
  /\ users = <<>>

CreateList ==
  \E input \in CreateListInputs(StoreNames, {}) :
     Returns(ListRepository_createList(Store, input))

UpdateList ==
  \E id \in ListIdInputs, input \in UpdateListInputs(StoreNames, {}) :
     Returns(ListRepository_updateList(Store, id, input))

DeleteList ==
  \E id \in ListIdInputs :
     Returns(ListRepository_deleteList(Store, id, TRUE))

CreateTask ==
  /\ Len(tasks) < MaxTasks \/ ~checkCapacity(Store)
  /\ \E input \in CreateTaskInputs(StoreDeadlines) :
        Returns(TaskRepository_createTask(Store, input))

UpdateTask ==
  \E id \in TaskIdInputs, input \in UpdateTaskInputs(StoreDeadlines) :
     Returns(TaskRepository_updateTask(Store, id, input))

DeleteTask ==
  \E id \in TaskIdInputs : Returns(TaskRepository_deleteTask(Store, id))

CompleteTask ==
  \E id \in TaskIdInputs : Returns(TaskRepository_completeTask(Store, id))

UncompleteTask ==
  \E id \in TaskIdInputs : Returns(TaskRepository_uncompleteTask(Store, id))

Next ==
  \/ CreateList
  \/ UpdateList
  \/ DeleteList
  \/ CreateTask
  \/ UpdateTask
  \/ DeleteTask
  \/ CompleteTask
  \/ UncompleteTask

Spec == Init /\ [][Next]_vars

----------------------------------------------------------------------------
(* Properties of the store, checked under Spec *)

BucketsOf(index, id) == { k \in DOMAIN index : id \in Range(index[k]) }

IndexedIds(index) == UNION { Range(index[k]) : k \in DOMAIN index }

StoredTaskIds == { tasks[i].id : i \in 1 .. Len(tasks) }

StoredListIds == { lists[i].id : i \in 1 .. Len(lists) }

NoRepeat(seq) == \A i, j \in 1 .. Len(seq) : seq[i] = seq[j] => i = j

(* C1: every stored task is in exactly the bucket of its current list_id, *)
(* of its current status, of its current priority and, iff it has a       *)
(* deadline, of the day of that deadline, once in each; and no bucket     *)
(* holds the id of a task that is not stored.                             *)
C1_IndexConsistency ==
  /\ \A i \in 1 .. Len(tasks) :
       LET task == tasks[i] IN
       /\ BucketsOf(tasksByListId, task.id) = {task.list_id}
       /\ BucketsOf(tasksByStatus, task.id) = {task.status}
       /\ BucketsOf(tasksByPriority, task.id) = {task.priority}
       /\ BucketsOf(tasksByDeadlineDate, task.id) =
            IF task.deadline = NoDate THEN {}
            ELSE {task.deadline \div TicksPerDay}
  /\ IndexedIds(tasksByListId) \subseteq StoredTaskIds
  /\ IndexedIds(tasksByStatus) \subseteq StoredTaskIds
  /\ IndexedIds(tasksByPriority) \subseteq StoredTaskIds
  /\ IndexedIds(tasksByDeadlineDate) \subseteq StoredTaskIds
  /\ \A k \in DOMAIN tasksByListId : NoRepeat(tasksByListId[k])
  /\ \A k \in DOMAIN tasksByStatus : NoRepeat(tasksByStatus[k])
  /\ \A k \in DOMAIN tasksByPriority : NoRepeat(tasksByPriority[k])
  /\ \A k \in DOMAIN tasksByDeadlineDate : NoRepeat(tasksByDeadlineDate[k])

(* two tasks, one of them completed, off the default priority and with a  *)
(* deadline on a later day: it was re-indexed by updates                  *)
C1_Witness ==
  /\ Len(tasks) = 2
  /\ \E i \in 1 .. Len(tasks) :
        /\ tasks[i].status = COMPLETED
        /\ tasks[i].priority = HIGH
        /\ tasks[i].deadline # NoDate
        /\ tasks[i].deadline \div TicksPerDay = MaxDay

(* C2: the tasks_count of every stored list is the number of stored tasks *)
(* whose list_id is the id of that list.                                   *)
C2_TasksCount ==
  \A i \in 1 .. Len(lists) :
     lists[i].tasks_count =
        Cardinality({ j \in 1 .. Len(tasks) : tasks[j].list_id = lists[i].id })

(* two lists, the task created first now counted by the list created last *)
C2_Witness ==
  /\ Len(lists) = 2
  /\ lists[1].tasks_count = 0
  /\ lists[2].tasks_count = 1
  /\ lists[1].id < lists[2].id
  /\ Len(tasks) = 1

(* C4: a stored task has a completed_at exactly when its status is        *)
(* completed.                                                              *)
C4_CompletedAt ==
  \A i \in 1 .. Len(tasks) :
     (tasks[i].completed_at # NoDate) <=> (tasks[i].status = COMPLETED)

(* a completed task next to a pending one *)
C4_Witness ==
  /\ \E i \in 1 .. Len(tasks) :
        tasks[i].status = COMPLETED /\ tasks[i].completed_at # NoDate
  /\ \E i \in 1 .. Len(tasks) :
        tasks[i].status = PENDING /\ tasks[i].completed_at = NoDate

(* C5: the lists and tasks together never number more than maxSize.       *)
C5_Capacity == Len(lists) + Len(tasks) <= maxSize

(* the store is full, with tasks in it *)
C5_Witness == Len(lists) + Len(tasks) = maxSize /\ Len(tasks) > 0

(* C16: none of the four indexes has a key whose set of task ids is      *)
(* empty.                                                                 *)
C16_NoEmptyBucket ==
  /\ \A k \in DOMAIN tasksByListId : Len(tasksByListId[k]) > 0
  /\ \A k \in DOMAIN tasksByStatus : Len(tasksByStatus[k]) > 0
  /\ \A k \in DOMAIN tasksByPriority : Len(tasksByPriority[k]) > 0
  /\ \A k \in DOMAIN tasksByDeadlineDate : Len(tasksByDeadlineDate[k]) > 0

(* every stored task has been completed, so the bucket of pending tasks  *)
(* is gone while tasks are stored, and a stored list has no bucket        *)
C16_Witness ==
  /\ Len(tasks) > 0
  /\ PENDING \notin DOMAIN tasksByStatus
  /\ COMPLETED \in DOMAIN tasksByStatus
  /\ Len(lists) > Cardinality(DOMAIN tasksByListId)

----------------------------------------------------------------------------
(* SpecKeep: as Spec without deadlines, and with deleteList called with   *)
(* deleteAssociatedTasks true or false.                                   *)

KeepDeleteList ==
  \E id \in ListIdInputs, deleteAssociatedTasks \in BOOLEAN :
     Returns(ListRepository_deleteList(Store, id, deleteAssociatedTasks))

KeepCreateTask ==
  /\ Len(tasks) < MaxTasks \/ ~checkCapacity(Store)
  /\ \E input \in CreateTaskInputs({}) :
        Returns(TaskRepository_createTask(Store, input))

KeepUpdateTask ==
  \E id \in TaskIdInputs, input \in UpdateTaskInputs({}) :
     Returns(TaskRepository_updateTask(Store, id, input))

NextKeep ==
  \/ CreateList
  \/ KeepDeleteList
  \/ KeepCreateTask
  \/ KeepUpdateTask
  \/ DeleteTask

SpecKeep == Init /\ [][NextKeep]_vars

(* C3: the list_id of every stored task is the id of a stored list, and   *)
(* every key of tasksByListId is the id of a stored list.                 *)
C3_ReferentialIntegrity ==
  /\ \A i \in 1 .. Len(tasks) : MapHas(lists, tasks[i].list_id)
  /\ DOMAIN tasksByListId \subseteq StoredListIds

----------------------------------------------------------------------------
(* SpecCreate: creations, their outcome observed in result, and           *)
(* deletions.  SpecCascade: as Spec, with the outcome of deleteList       *)
(* observed in result.                                                     *)

CallCreateList ==
  \E input \in CreateListInputs(StoreNames, {}) :
     Observed("createList", ListRepository_createList(Store, input))

CallCreateTask ==
  /\ Len(tasks) < MaxTasks \/ ~checkCapacity(Store)
  /\ \E input \in CreateTaskInputs(StoreDeadlines) :
        Observed("createTask", TaskRepository_createTask(Store, input))

CallDeleteList ==
  \E id \in ListIdInputs :
     Observed("deleteList", ListRepository_deleteList(Store, id, TRUE))

NextCreate ==
  \/ CallCreateList
  \/ CallCreateTask
  \/ DeleteList
  \/ DeleteTask

SpecCreate == Init /\ [][NextCreate]_vars

NextCascade ==
  \/ CreateList
  \/ CreateTask
  \/ UpdateTask
  \/ DeleteTask
  \/ CallDeleteList

SpecCascade == Init /\ [][NextCascade]_vars

(* C6: a createList or createTask that reaches the store succeeds and     *)
(* adds exactly one record while the store holds fewer than maxSize       *)
(* records; when it holds maxSize records the call fails with the         *)
(* capacity error and lists, tasks and the four indexes (with every       *)
(* tasks_count) are as before the call.                                   *)
C6_CapacityRejection ==
  [][ (result'.op \in {"createList", "createTask"}
       /\ result'.err \in {"none", "capacity"})
      => IF Len(lists) + Len(tasks) < maxSize
         THEN /\ result'.err = "none"
              /\ IF result'.op = "createList"
                 THEN /\ Len(lists') = Len(lists) + 1
                      /\ StoredListIds' = StoredListIds \cup {result'.id}
                      /\ tasks' = tasks
                 ELSE /\ Len(tasks') = Len(tasks) + 1
                      /\ StoredTaskIds' = StoredTaskIds \cup {result'.id}
                      /\ Len(lists') = Len(lists)
         ELSE /\ result'.err = "capacity"
              /\ UNCHANGED storeVars ]_vars

(* a createTask was refused by a full store *)
C6_Witness ==
  /\ result.op = "createTask"
  /\ result.err = "capacity"
  /\ Len(lists) + Len(tasks) = maxSize

(* C7: after deleteList(L, true) returns true, L is not stored, no stored *)
(* task has list_id L, no id of a task of L is left in any index, and the *)
(* other lists, the tasks of other lists and their bucket memberships are *)
(* as before.                                                              *)
C7_CascadingDelete ==
  [][ (result'.op = "deleteList" /\ result'.err = "none" /\ result'.flag)
      => LET L == result'.id
             deleted == { tasks[i].id : i \in { j \in 1 .. Len(tasks) :
                                                   tasks[j].list_id = L } }
         IN /\ MapHas(lists, L)
            /\ ~MapHas(lists', L)
            /\ \A i \in 1 .. Len(tasks') : tasks'[i].list_id # L
            /\ deleted \cap IndexedIds(tasksByListId') = {}
            /\ deleted \cap IndexedIds(tasksByStatus') = {}
            /\ deleted \cap IndexedIds(tasksByPriority') = {}
            /\ deleted \cap IndexedIds(tasksByDeadlineDate') = {}
            /\ lists' = SelectSeq(lists, LAMBDA l : l.id # L)
            /\ tasks' = SelectSeq(tasks, LAMBDA task : task.list_id # L)
            /\ \A id \in StoredTaskIds \ deleted :
                 /\ BucketsOf(tasksByListId', id) = BucketsOf(tasksByListId, id)
                 /\ BucketsOf(tasksByStatus', id) = BucketsOf(tasksByStatus, id)
                 /\ BucketsOf(tasksByPriority', id) =
                      BucketsOf(tasksByPriority, id)
                 /\ BucketsOf(tasksByDeadlineDate', id) =
                      BucketsOf(tasksByDeadlineDate, id) ]_vars

(* a cascading delete of a list that held MaxTasks tasks has returned *)
C7_Witness ==
  /\ result.op = "deleteList"
  /\ result.err = "none"
  /\ result.flag
  /\ result.n = MaxTasks

----------------------------------------------------------------------------
(* SpecQuery: the store is filled, with deadlines at any instant of a     *)
(* day, and then one query is observed: its arguments, the ids of the     *)
(* page it returns and its total.  A query leaves the store as it is, so  *)
(* what it returns after the calls that filled the store is what it       *)
(* returns wherever it is called.                                         *)

Query(listId, status, fromDate, toDate, filters, sort, page) ==
  [listId |-> listId, status |-> status, fromDate |-> fromDate,
   toDate |-> toDate, filters |-> filters, sort |-> sort,
   limit |-> page.limit, offset |-> page.offset]

Answered(op, query, r) ==
  /\ result.op = "none"
  /\ result' = [op |-> op, err |-> "none", id |-> 0, flag |-> FALSE, n |-> 0,
                query |-> query,
                items |-> [i \in 1 .. Len(r.items) |-> r.items[i].id],
                total |-> r.total]
  /\ UNCHANGED <<storeVars, otherVars, now, requests>>

NoPage == [limit |-> NoNumber, offset |-> NoNumber]

Pages == { NoPage, [limit |-> 1, offset |-> 0], [limit |-> 1, offset |-> 1] }

ByPriority == { NoFilters, [NoFilters EXCEPT !.priority = HIGH] }

TaskFilterInputs ==
  ByPriority \cup
  { [NoFilters EXCEPT !.status = COMPLETED],
    [NoFilters EXCEPT !.deadline_from = 1, !.deadline_to = TicksPerDay],
    [NoFilters EXCEPT !.search = <<"T">>] }

ByDeadline == { [field |-> "deadline", order |-> "asc"],
                [field |-> "deadline", order |-> "desc"] }

TaskSortInputs == ByDeadline \cup { NoSort, [field |-> "priority", order |-> "desc"] }

ListFilterInputs == { [search |-> <<>>], [search |-> <<"A">>], [search |-> <<"b">>] }

ListSortInputs == { NoSort, [field |-> "name", order |-> "asc"],
                    [field |-> "tasks_count", order |-> "desc"] }

QueryCreateList == result.op = "none" /\ CreateList

QueryCreateTask ==
  /\ result.op = "none"
  /\ Len(tasks) < MaxTasks
  /\ \E input \in CreateTaskInputs(Instants) :
        /\ input.priority \in {"", HIGH}
        /\ Returns(TaskRepository_createTask(Store, input))

QueryCompleteTask == result.op = "none" /\ CompleteTask

GetAllLists ==
  \E filters \in ListFilterInputs, sort \in ListSortInputs, page \in Pages :
     Answered("getAllLists",
              Query(0, "", NoDate, NoDate, filters, sort, page),
              ListRepository_getAllLists(Store, filters, sort,
                                         page.limit, page.offset))

GetAllTasks ==
  \E filters \in TaskFilterInputs, sort \in TaskSortInputs, page \in Pages :
     Answered("getAllTasks",
              Query(0, "", NoDate, NoDate, filters, sort, page),
              TaskRepository_getAllTasks(Store, filters, sort,
                                         page.limit, page.offset))

GetTasksByListId ==
  \E listId \in ListIdInputs, filters \in ByPriority,
     sort \in {NoSort}, page \in Pages :
     Answered("getTasksByListId",
              Query(listId, "", NoDate, NoDate, filters, sort, page),
              TaskRepository_getTasksByListId(Store, listId, filters, sort,
                                              page.limit, page.offset))

GetTasksByStatus ==
  \E status \in TaskStatus, filters \in ByPriority,
     sort \in {NoSort}, page \in Pages :
     Answered("getTasksByStatus",
              Query(0, status, NoDate, NoDate, filters, sort, page),
              TaskRepository_getTasksByStatus(Store, status, filters, sort,
                                              page.limit, page.offset))

GetTasksByDeadlineRange ==
  \E fromDate \in Instants, toDate \in Instants, filters \in ByPriority,
     sort \in {NoSort}, page \in {NoPage, [limit |-> 1, offset |-> 0]} :
     /\ fromDate <= toDate
     /\ Answered("getTasksByDeadlineRange",
                 Query(0, "", fromDate, toDate, filters, sort, page),
                 TaskRepository_getTasksByDeadlineRange(
                   Store, fromDate, toDate, filters, sort,
                   page.limit, page.offset))

NextQuery ==
  \/ QueryCreateList
  \/ QueryCreateTask
  \/ QueryCompleteTask
  \/ GetAllLists
  \/ GetAllTasks
  \/ GetTasksByListId
  \/ GetTasksByStatus
  \/ GetTasksByDeadlineRange

SpecQuery == Init /\ [][NextQuery]_vars

(* the stored lists that match a search term, by a scan of all lists *)
ListsMatching(search) ==
  { i \in 1 .. Len(lists) :
      \/ Len(search) = 0
      \/ includes(toLowerCase(lists[i].name), toLowerCase(search))
      \/ includes(toLowerCase(lists[i].description), toLowerCase(search)) }

(* C8: getTasksByDeadlineRange(a, b) with a <= b, unfiltered and          *)
(* unsliced, returns exactly the stored tasks whose deadline d has        *)
(* a <= d <= b, each of them once.                                        *)
C8_DeadlineRange ==
  (/\ result.op = "getTasksByDeadlineRange"
   /\ result.query.filters = NoFilters
   /\ result.query.limit = NoNumber)
  => /\ Range(result.items) =
          { tasks[i].id : i \in { j \in 1 .. Len(tasks) :
               /\ tasks[j].deadline # NoDate
               /\ result.query.fromDate <= tasks[j].deadline
               /\ tasks[j].deadline <= result.query.toDate } }
     /\ NoRepeat(result.items)

(* C9: the total of getAllLists and of the four task queries is the       *)
(* number of records that pass the filter, counted before the slice.      *)
C9_PaginationTotal ==
  /\ result.op = "getAllLists"
       => result.total = Cardinality(ListsMatching(result.query.filters.search))
  /\ result.op = "getAllTasks"
       => result.total = Len(applyFilters(tasks, result.query.filters))
  /\ result.op = "getTasksByListId"
       => result.total =
            Len(applyFilters(
                  SelectSeq(tasks, LAMBDA task :
                              task.list_id = result.query.listId),
                  result.query.filters))
  /\ result.op = "getTasksByStatus"
       => result.total =
            Len(applyFilters(
                  SelectSeq(tasks, LAMBDA task :
                              task.status = result.query.status),
                  result.query.filters))
  /\ result.op = "getTasksByDeadlineRange"
       => result.total =
            Len(applyFilters(
                  MemoryStore_getTasksByDeadlineRange(
                    Store, result.query.fromDate, result.query.toDate),
                  result.query.filters))

(* C10: sorted by deadline, ascending or descending, every task with a    *)
(* deadline comes before every task without one, and the tasks with a     *)
(* deadline are in the requested order.                                   *)
C10_DeadlineSortMissingLast ==
  (result.op = "getAllTasks" /\ result.query.sort.field = "deadline")
  => \A i, j \in 1 .. Len(result.items) :
        i < j =>
          LET di == MapGet(tasks, result.items[i]).deadline
              dj == MapGet(tasks, result.items[j]).deadline
          IN /\ ~(di = NoDate /\ dj # NoDate)
             /\ (di # NoDate /\ dj # NoDate)
                  => IF result.query.sort.order = "asc"
                     THEN di <= dj ELSE di >= dj

----------------------------------------------------------------------------
(* The services.  A service call runs until its next await, where any     *)
(* other call may run; a repository method has no await in it, so it      *)
(* runs whole inside one step.  A call in flight is a record in requests: *)
(* its method (op), the await it stands at (pc), its arguments (id,       *)
(* input) and what it read from the store before the await (seen).  A     *)
(* call that ends leaves its outcome in result and leaves requests.       *)

InFlight == BagToSet(requests)

CanBegin == BagCardinality(requests) < MaxRequests

Request(op, pc, id, input, seen) ==
  [op |-> op, pc |-> pc, id |-> id, input |-> input, seen |-> seen]

(* a call begins and runs to its first await *)
Begin(request) ==
  /\ CanBegin
  /\ requests' = requests (+) SetToBag({request})
  /\ result' = NoResult
  /\ UNCHANGED <<storeVars, otherVars, now>>

(* a call in flight runs from one await to the next *)
Await(r, request) ==
  /\ requests' = (requests (-) SetToBag({r})) (+) SetToBag({request})
  /\ result' = NoResult
  /\ UNCHANGED <<storeVars, otherVars, now>>

(* a call in flight runs to its end, leaving the store s *)
Settle(r, err, id, s) ==
  /\ Install(s)
  /\ requests' = requests (-) SetToBag({r})
  /\ result' = [op |-> r.op, err |-> err, id |-> id,
                flag |-> FALSE, n |-> 0, input |-> r.input]
  /\ UNCHANGED now

ListRepository_isListNameUnique(s, name, excludeId) ==
  LET trimmedName == toLowerCase(trim(name))
  IN ~\E i \in 1 .. Len(s.lists) :
        /\ toLowerCase(s.lists[i].name) = trimmedName
        /\ (excludeId # 0 => s.lists[i].id # excludeId)

(* createListSchema and updateListSchema: strings are trimmed *)
listSchemaValue(input) ==
  [name |-> trim(input.name), description |-> trim(input.description)]

ServeNames == { <<"a">>, <<"A", " ">>, <<"b">> }

(* ListService.createList up to the await in validateListBusinessRules *)
ListService_createList ==
  \E input \in CreateListInputs(ServeNames, {}) :
     LET value == listSchemaValue(input)
     IN Begin(Request("createList", "validated", 0, value,
                      ListRepository_isListNameUnique(Store, value.name, 0)))

(* ... and from there on: the conflict error, or the repository call *)
ListService_createList_validated ==
  \E r \in InFlight :
     /\ r.op = "createList"
     /\ LET o == ListRepository_createList(Store, r.input)
        IN IF ~r.seen THEN Settle(r, "conflict", 0, Store)
           ELSE Settle(r, o.err, o.id, o.s)

(* ListService.updateList up to the await of getListById *)
ListService_updateList ==
  \E id \in ListIdInputs, input \in UpdateListInputs(ServeNames, {}) :
     /\ Len(input.name) + Len(input.description) > 0
     /\ Begin(Request("updateList", "checked", id, listSchemaValue(input),
                      MapHas(lists, id)))

(* ... from there to the await in validateListBusinessRules, or, for a    *)
(* patch without a name, to the end                                       *)
ListService_updateList_checked ==
  \E r \in InFlight :
     /\ r.op = "updateList"
     /\ r.pc = "checked"
     /\ LET o == ListRepository_updateList(Store, r.id, r.input)
        IN IF ~r.seen THEN Settle(r, "notfound", r.id, Store)
           ELSE IF Len(r.input.name) > 0
           THEN Await(r,
                      Request("updateList", "validated", r.id, r.input,
                              ListRepository_isListNameUnique(
                                Store, r.input.name, r.id)))
           ELSE Settle(r, o.err, r.id, o.s)

(* ... and from there on *)
ListService_updateList_validated ==
  \E r \in InFlight :
     /\ r.op = "updateList"
     /\ r.pc = "validated"
     /\ LET o == ListRepository_updateList(Store, r.id, r.input)
        IN IF ~r.seen THEN Settle(r, "conflict", r.id, Store)
           ELSE Settle(r, o.err, r.id, o.s)

----------------------------------------------------------------------------
(* SpecLists: createList and updateList of the list service in flight     *)
(* together, and lists deleted in between.                                *)

NextLists ==
  \/ ListService_createList
  \/ ListService_createList_validated
  \/ ListService_updateList
  \/ ListService_updateList_checked
  \/ ListService_updateList_validated
  \/ DeleteList

SpecLists == Init /\ [][NextLists]_vars

(* a name as it is compared: trimmed and in lower case *)
ComparedName(name) == toLowerCase(trim(name))

(* C11: no two stored lists have names equal after trimming and           *)
(* lower-casing; a createList or updateList whose name another stored     *)
(* list has fails and leaves the lists as they are; an updateList to the  *)
(* name the list has already, in any letter case, is never refused as a   *)
(* duplicate by the repository, and succeeds unless the checks the        *)
(* service made earlier found the list absent or the name taken.          *)
C11_ListNameUniqueness ==
  [][ /\ \A i, j \in 1 .. Len(lists') :
           ComparedName(lists'[i].name) = ComparedName(lists'[j].name)
             => i = j
      /\ (/\ result'.op \in {"createList", "updateList"}
          /\ Len(result'.input.name) > 0
          /\ \E i \in 1 .. Len(lists) :
                /\ lists[i].id # result'.id
                /\ ComparedName(lists[i].name)
                     = ComparedName(result'.input.name))
         => (result'.err # "none" /\ lists' = lists)
      /\ (/\ result'.op = "updateList"
          /\ MapHas(lists, result'.id)
          /\ Len(result'.input.name) > 0
          /\ ComparedName(MapGet(lists, result'.id).name)
               = ComparedName(result'.input.name))
         => /\ result'.err # "duplicate"
            /\ result'.err \notin {"notfound", "conflict"}
                 => (result'.err = "none" /\ MapHas(lists', result'.id)) ]_vars

(* a createList that passed the check of the service while another call   *)
(* was in flight finds the name taken when it reaches the repository,     *)
(* and a third call still waits                                           *)
C11_Witness ==
  /\ result.op = "createList"
  /\ result.err = "duplicate"
  /\ \E i \in 1 .. Len(lists) :
        ComparedName(lists[i].name) = ComparedName(result.input.name)
  /\ InFlight # {}

----------------------------------------------------------------------------
(* SpecStore: a store filled through the repositories, and then one      *)
(* method of MemoryStore called directly, with any Partial<List> or       *)
(* Partial<Task> as the patch.  A patch is a function from the fields it  *)
(* carries.                                                               *)

CountInputs == {0, MaxTasks + 1}

ListPatchInputs ==
  { [name |-> <<"b">>] }
  \cup { [id |-> k] : k \in Ids }
  \cup { [tasks_count |-> c] : c \in CountInputs }
  \cup { [id |-> k, name |-> <<"b">>] : k \in Ids }

TaskPatchInputs ==
  { [status |-> status] : status \in TaskStatus }
  \cup { [list_id |-> l] : l \in ListIdInputs }
  \cup { [id |-> k] : k \in Ids }
  \cup { [id |-> k, priority |-> HIGH] : k \in Ids }
  \cup { [id |-> k, list_id |-> l] : k \in Ids, l \in ListIdInputs }

(* a method of the store returned r.ok and left the store r.s *)
StoreCall(op, id, input, r) ==
  /\ result.op = "none"
  /\ Install(r.s)
  /\ result' = [op |-> op, err |-> "none", id |-> id, flag |-> r.ok,
                n |-> 0, input |-> input]
  /\ UNCHANGED <<now, requests>>

StoreUpdateList ==
  \E id \in ListIdInputs, updates \in ListPatchInputs :
     StoreCall("MemoryStore.updateList", id, updates,
               MemoryStore_updateList(Store, id, updates))

StoreDeleteList ==
  \E id \in ListIdInputs :
     StoreCall("MemoryStore.deleteList", id, <<>>,
               MemoryStore_deleteList(Store, id, TRUE))

StoreUpdateTask ==
  \E id \in TaskIdInputs, updates \in TaskPatchInputs :
     StoreCall("MemoryStore.updateTask", id, updates,
               MemoryStore_updateTask(Store, id, updates))

StoreDeleteTask ==
  \E id \in TaskIdInputs :
     StoreCall("MemoryStore.deleteTask", id, <<>>,
               MemoryStore_deleteTask(Store, id))

NextStore ==
  \/ QueryCreateList
  \/ QueryCreateTask
  \/ QueryCompleteTask
  \/ StoreUpdateList
  \/ StoreDeleteList
  \/ StoreUpdateTask
  \/ StoreDeleteTask

SpecStore == Init /\ [][NextStore]_vars

StoreOps == {"MemoryStore.updateList", "MemoryStore.deleteList",
             "MemoryStore.updateTask", "MemoryStore.deleteTask"}

(* the map a method of the store looks its id up in *)
MapOf(op) ==
  IF op \in {"MemoryStore.updateList", "MemoryStore.deleteList"}
  THEN lists ELSE tasks

(* C12: updateList, updateTask, deleteList and deleteTask of the store,   *)
(* called with an id that is not stored, return false and leave the       *)
(* lists, the tasks, the four indexes and so every tasks_count as they    *)
(* were.                                                                  *)
C12_NotFoundNoSideEffect ==
  [][ (result'.op \in StoreOps /\ ~MapHas(MapOf(result'.op), result'.id))
        => (~result'.flag /\ UNCHANGED storeVars) ]_vars

(* updateTask was called on a store that holds lists and tasks, for an    *)
(* id that is no task, with a patch that names a stored list, and         *)
(* returned false                                                         *)
C12_Witness ==
  /\ result.op = "MemoryStore.updateTask"
  /\ ~result.flag
  /\ ~MapHas(tasks, result.id)
  /\ Len(tasks) > 0
  /\ "list_id" \in DOMAIN result.input
  /\ MapHas(lists, result.input.list_id)

(* C14: after updateList(k, patch) or updateTask(k, patch) of the store   *)
(* on a stored k, whatever id the patch carries, the record stored under  *)
(* k has the id k and the name, status, priority and list_id of the       *)
(* patch, nothing has been stored                                         *)
(* under the id of the patch (the stored ids are as before, and every     *)
(* other record is as it was), and for a task the buckets of its values   *)
(* hold k while no bucket holds an id that is not stored.                 *)
C14_IdImmutable ==
  [][ (result'.op \in {"MemoryStore.updateList", "MemoryStore.updateTask"}
       /\ MapHas(MapOf(result'.op), result'.id))
        => LET k == result'.id
               patch == result'.input
               isList == result'.op = "MemoryStore.updateList"
               before == IF isList THEN lists ELSE tasks
               after == IF isList THEN lists' ELSE tasks'
           IN /\ result'.flag
              /\ Len(after) = Len(before)
              /\ \A i \in 1 .. Len(before) :
                    /\ after[i].id = before[i].id
                    /\ before[i].id # k => after[i] = before[i]
                    /\ before[i].id = k =>
                         \A f \in DOMAIN patch \ {"id", "tasks_count"} :
                            after[i][f] = patch[f]
              /\ ~isList =>
                    /\ k \in Range(tasksByListId'[MapGet(after, k).list_id])
                    /\ k \in Range(tasksByStatus'[MapGet(after, k).status])
                    /\ k \in Range(tasksByPriority'[MapGet(after, k).priority])
                    /\ \A id \in IndexedIds(tasksByListId')
                                  \cup IndexedIds(tasksByStatus')
                                  \cup IndexedIds(tasksByPriority')
                                  \cup IndexedIds(tasksByDeadlineDate') :
                          \E i \in 1 .. Len(before) : before[i].id = id ]_vars

(* updateTask was called on a stored task with a patch that carries an id *)
(* no task has, and the task is stored under its own id                   *)
C14_Witness ==
  /\ result.op = "MemoryStore.updateTask"
  /\ result.flag
  /\ "id" \in DOMAIN result.input
  /\ result.input.id # result.id
  /\ ~MapHas(tasks, result.input.id)
  /\ MapHas(tasks, result.id)

(* C15: after an updateList of the store, whatever the patch carries,     *)
(* the tasks_count of the list is the number of tasks in its bucket of    *)
(* tasksByListId.                                                         *)
C15_TasksCountNotSettable ==
  (result.op = "MemoryStore.updateList" /\ result.flag)
    => MapGet(lists, result.id).tasks_count
         = IF result.id \in DOMAIN tasksByListId
           THEN Len(tasksByListId[result.id]) ELSE 0

----------------------------------------------------------------------------
(* SpecRefs: as SpecKeep, with the outcome of createTask and updateTask   *)
(* observed together with the input; a caller can name the list_id of any *)
(* stored task as well as the id of any stored list.                      *)

ReferredListIds == ListIdInputs \cup DOMAIN tasksByListId

ObservedWith(op, input, o) ==
  /\ Install(o.s)
  /\ result' = [op |-> op, err |-> o.err, id |-> o.id, flag |-> o.flag,
                n |-> o.n, input |-> input]
  /\ UNCHANGED <<now, requests>>

RefCreateTask ==
  /\ Len(tasks) < MaxTasks \/ ~checkCapacity(Store)
  /\ \E list_id \in ReferredListIds :
        LET input == [list_id |-> list_id, title |-> <<"t">>,
                      deadline |-> NoDate, priority |-> ""]
        IN ObservedWith("createTask", input,
                        TaskRepository_createTask(Store, input))

RefUpdateTask ==
  \E id \in TaskIdInputs, list_id \in ReferredListIds, status \in {"", COMPLETED} :
     LET input == [title |-> <<>>, deadline |-> NoDate, priority |-> "",
                   status |-> status, list_id |-> list_id]
     IN ObservedWith("updateTask", input,
                     TaskRepository_updateTask(Store, id, input))

NextRefs ==
  \/ CreateList
  \/ KeepDeleteList
  \/ RefCreateTask
  \/ RefUpdateTask

SpecRefs == Init /\ [][NextRefs]_vars

(* C13: createTask with a list_id that is no stored list, and updateTask  *)
(* of a stored task with a patch list_id that is no stored list, fail     *)
(* with an error and leave the tasks, the four indexes and the lists      *)
(* (so every tasks_count) as they were.                                   *)
C13_ValidationBeforeMutation ==
  [][ (/\ result'.op \in {"createTask", "updateTask"}
       /\ result'.op = "updateTask" => MapHas(tasks, result'.id)
       /\ ~MapHas(lists, result'.input.list_id))
        => (result'.err = "nolist" /\ UNCHANGED storeVars) ]_vars

----------------------------------------------------------------------------
(* TaskService, and deleteList of ListService, as calls in flight *)

listExists(s, id) == MapHas(s.lists, id)

ServeCreateTaskInputs ==
  [list_id : ListIdInputs, title : {<<"t">>}, deadline : {NoDate},
   priority : {""}]

(* patches that move the task to a list *)
ServeUpdateTaskInputs ==
  [title : {<<>>}, deadline : {NoDate}, priority : {""}, status : {""},
   list_id : ListIdInputs]

(* TaskService.createTask up to the await in validateTaskBusinessRules *)
TaskService_createTask ==
  \E input \in ServeCreateTaskInputs :
     Begin(Request("createTask", "validated", 0, input,
                   listExists(Store, input.list_id)))

(* ... and from there on: not found, or the repository call *)
TaskService_createTask_validated ==
  \E r \in InFlight :
     /\ r.op = "createTask"
     /\ LET o == TaskRepository_createTask(Store, r.input)
        IN IF ~r.seen THEN Settle(r, "notfound", 0, Store)
           ELSE Settle(r, o.err, o.id, o.s)

(* TaskService.updateTask up to the await of getTaskById; seen is the     *)
(* list_id of the task it found, or 0                                     *)
TaskService_updateTask ==
  \E id \in TaskIdInputs, input \in ServeUpdateTaskInputs :
     Begin(Request("updateTask", "checked", id, input,
                   IF MapHas(tasks, id) THEN MapGet(tasks, id).list_id
                   ELSE 0))

(* ... from there to the await in or of validateTaskUpdateBusinessRules;  *)
(* seen becomes what listExists returned, if it was called                *)
TaskService_updateTask_checked ==
  \E r \in InFlight :
     /\ r.op = "updateTask"
     /\ r.pc = "checked"
     /\ IF r.seen = 0 THEN Settle(r, "notfound", r.id, Store)
        ELSE Await(r, Request("updateTask", "validated", r.id, r.input,
                              IF r.input.list_id # 0
                                 /\ r.input.list_id # r.seen
                              THEN listExists(Store, r.input.list_id)
                              ELSE TRUE))

(* ... and from there on *)
TaskService_updateTask_validated ==
  \E r \in InFlight :
     /\ r.op = "updateTask"
     /\ r.pc = "validated"
     /\ LET o == TaskRepository_updateTask(Store, r.id, r.input)
        IN IF ~r.seen THEN Settle(r, "notfound", r.id, Store)
           ELSE Settle(r, o.err, r.id, o.s)

(* TaskService.deleteTask up to the await of getTaskById *)
TaskService_deleteTask ==
  \E id \in TaskIdInputs :
     Begin(Request("deleteTask", "checked", id, <<>>, MapHas(tasks, id)))

(* ... and from there on *)
TaskService_deleteTask_checked ==
  \E r \in InFlight :
     /\ r.op = "deleteTask"
     /\ LET o == TaskRepository_deleteTask(Store, r.id)
        IN IF ~r.seen THEN Settle(r, "notfound", r.id, Store)
           ELSE Settle(r, o.err, r.id, o.s)

(* ListService.deleteList, with no option given, up to the await of       *)
(* getListById                                                            *)
ListService_deleteList ==
  \E id \in ListIdInputs :
     Begin(Request("deleteList", "checked", id, <<>>, MapHas(lists, id)))

(* ... and from there on: deleteAssociatedTasks is true by default *)
ListService_deleteList_checked ==
  \E r \in InFlight :
     /\ r.op = "deleteList"
     /\ LET o == ListRepository_deleteList(Store, r.id, TRUE)
        IN IF ~r.seen THEN Settle(r, "notfound", r.id, Store)
           ELSE Settle(r, o.err, r.id, o.s)

----------------------------------------------------------------------------
(* SpecTasks: the calls of TaskService and the cascading deleteList of    *)
(* ListService in flight together, on lists created in between.           *)

NextTasks ==
  \/ CreateList
  \/ TaskService_createTask
  \/ TaskService_createTask_validated
  \/ TaskService_updateTask
  \/ TaskService_updateTask_checked
  \/ TaskService_updateTask_validated
  \/ TaskService_deleteTask
  \/ TaskService_deleteTask_checked
  \/ ListService_deleteList
  \/ ListService_deleteList_checked

SpecTasks == Init /\ [][NextTasks]_vars

(* C17: wherever a call can run, that is in every state, with calls in    *)
(* flight at their awaits: every stored task is in the bucket of its      *)
(* list_id, of its status, of its priority and of its deadline's day and  *)
(* in no other; no bucket holds a task that is not stored; no cascade is  *)
(* half done (no task and no bucket of a list that is not stored); and    *)
(* the tasks_count of every list is the number of stored tasks with its   *)
(* id as list_id.                                                         *)
C17_AtomicMutations ==
  /\ \A i \in 1 .. Len(tasks) :
       /\ BucketsOf(tasksByListId, tasks[i].id) = {tasks[i].list_id}
       /\ BucketsOf(tasksByStatus, tasks[i].id) = {tasks[i].status}
       /\ BucketsOf(tasksByPriority, tasks[i].id) = {tasks[i].priority}
       /\ BucketsOf(tasksByDeadlineDate, tasks[i].id)
            = IF tasks[i].deadline = NoDate THEN {}
              ELSE {formatDateKey(tasks[i].deadline)}
       /\ MapHas(lists, tasks[i].list_id)
  /\ IndexedIds(tasksByListId) \cup IndexedIds(tasksByStatus)
       \cup IndexedIds(tasksByPriority) \cup IndexedIds(tasksByDeadlineDate)
       \subseteq StoredTaskIds
  /\ DOMAIN tasksByListId \subseteq StoredListIds
  /\ \A i \in 1 .. Len(lists) :
       lists[i].tasks_count
         = Cardinality({ j \in 1 .. Len(tasks) :
                           tasks[j].list_id = lists[i].id })

(* a cascading deleteList has just removed a list with the task that an   *)
(* updateTask, waiting at its await, had read in that list                *)
C17_Witness ==
  /\ result.op = "deleteList"
  /\ result.err = "none"
  /\ \E r \in InFlight :
        /\ r.op = "updateTask"
        /\ r.pc = "checked"
        /\ r.seen = result.id
        /\ ~MapHas(tasks, r.id)

(* C19: with createTask and updateTask of TaskService and the cascading   *)
(* deleteList of ListService interleaved at their awaits, no state has a  *)
(* stored task whose list_id is not a stored list; a createTask or a move *)
(* that reaches the repository after its list was deleted fails and       *)
(* stores nothing.                                                        *)
C19_NoDanglingReference ==
  [][ /\ \A i \in 1 .. Len(tasks') : MapHas(lists', tasks'[i].list_id)
      /\ (/\ result'.op \in {"createTask", "updateTask"}
          /\ ~MapHas(lists, result'.input.list_id))
         => (result'.err # "none" /\ tasks' = tasks
             /\ tasksByListId' = tasksByListId) ]_vars

(* a createTask found its list when the service checked and was refused   *)
(* by the repository, the list having been deleted in between             *)
C19_Witness ==
  /\ result.op = "createTask"
  /\ result.err = "nolist"
  /\ ~MapHas(lists, result.input.list_id)

----------------------------------------------------------------------------
(* SpecCapacity: createList of ListService and createTask of TaskService  *)
(* in flight together, and lists deleted in between.                      *)

NextCapacity ==
  \/ ListService_createList
  \/ ListService_createList_validated
  \/ TaskService_createTask
  \/ TaskService_createTask_validated
  \/ DeleteList

SpecCapacity == Init /\ [][NextCapacity]_vars

(* C18: the lists and tasks never number more than maxSize; a createList  *)
(* or createTask that gets as far as the store inserts one record when    *)
(* the store holds fewer than maxSize records at that moment, and         *)
(* otherwise fails with the capacity error and changes nothing: of the    *)
(* creates in flight at maxSize - 1 records, the first to reach the       *)
(* store inserts and the others are refused.                              *)
C18_AtomicCapacityCheck ==
  [][ /\ Len(lists') + Len(tasks') <= maxSize
      /\ (/\ result'.op \in {"createList", "createTask"}
          /\ result'.err \in {"none", "capacity"})
         => IF Len(lists) + Len(tasks) < maxSize
            THEN /\ result'.err = "none"
                 /\ Len(lists') + Len(tasks') = Len(lists) + Len(tasks) + 1
            ELSE /\ result'.err = "capacity"
                 /\ UNCHANGED storeVars ]_vars

(* of two creates in flight at maxSize - 1 records, one has just inserted *)
(* the last record the store has room for, and the other, which passed    *)
(* the checks of the service, has not yet reached the repository          *)
C18_Witness ==
  /\ result.op \in {"createList", "createTask"}
  /\ result.err = "none"
  /\ Len(lists) + Len(tasks) = maxSize
  /\ \E r \in InFlight :
        /\ r.op = "createTask"
        /\ r.seen
        /\ MapHas(lists, r.input.list_id)

----------------------------------------------------------------------------
(* Lookups by index against scans of the tasks map, checked under Spec *)

(* the tasks of the store that a scan for field = v finds *)
Scan(field, v) == { tasks[i] : i \in { j \in 1 .. Len(tasks) : tasks[j][field] = v } }

(* C20: for every list id, status and priority v, getTasksByListId(v),    *)
(* getTasksByStatus(v) and getTasksByPriority(v) of the store return the  *)
(* stored tasks whose list_id, status or priority is v, each once; and    *)
(* for every list id L and filter F, getTasksByListId(L, F) and           *)
(* getAllTasks(F with list_id L) of the task repository return the same   *)
(* set of tasks and the same total.                                       *)
C20_IndexEqualsScan ==
  /\ \A v \in ListIdInputs :
       /\ Range(MemoryStore_getTasksByListId(Store, v)) = Scan("list_id", v)
       /\ NoRepeat(MemoryStore_getTasksByListId(Store, v))
  /\ \A v \in TaskStatus :
       /\ Range(MemoryStore_getTasksByStatus(Store, v)) = Scan("status", v)
       /\ NoRepeat(MemoryStore_getTasksByStatus(Store, v))
  /\ \A v \in TaskPriority :
       /\ Range(MemoryStore_getTasksByPriority(Store, v)) = Scan("priority", v)
       /\ NoRepeat(MemoryStore_getTasksByPriority(Store, v))
  /\ \A L \in ListIdInputs, F \in TaskFilterInputs :
       LET byIndex == TaskRepository_getTasksByListId(
                        Store, L, F, NoSort, NoNumber, NoNumber)
           byScan == TaskRepository_getAllTasks(
                       Store, [F EXCEPT !.list_id = L], NoSort, NoNumber,
                       NoNumber)
       IN /\ Range(byIndex.items) = Range(byScan.items)
          /\ byIndex.total = byScan.total

(* a list holds two tasks that its bucket keeps in another order than the *)
(* tasks map, one of them of high priority                                *)
C20_Witness ==
  \E i \in 1 .. Len(lists) :
     LET found == MemoryStore_getTasksByListId(Store, lists[i].id)
     IN /\ Len(found) = 2
        /\ found # SelectSeq(tasks, LAMBDA task : task.list_id = lists[i].id)
        /\ \E j \in 1 .. 2 : found[j].priority = HIGH

----------------------------------------------------------------------------
(* The queries of TaskService.  A query reads the store once, in the      *)
(* repository call it awaits, so it is one step.                          *)

(* Math.ceil(total / limit) *)
ceilDiv(total, limit) == (total + limit - 1) \div limit

TaskService_getAllTasks_offsetByPage(s, filters, sort, page, limit) ==
  IF page < 1 \/ limit < 1 \/ limit > 100
  THEN [err |-> "validation", items |-> <<>>, total |-> 0, totalPages |-> 0,
        hasNext |-> FALSE, hasPrev |-> FALSE]
  ELSE LET offset == page * limit
           r == TaskRepository_getAllTasks(s, filters, sort, limit, offset)
           totalPages == ceilDiv(r.total, limit)
       IN [err |-> "none", items |-> r.items, total |-> r.total,
           totalPages |-> totalPages, hasNext |-> page < totalPages,
           hasPrev |-> page > 1]

TaskService_getAllTasks(s, filters, sort, page, limit) ==
  IF page < 1 \/ limit < 1 \/ limit > 100
  THEN [err |-> "validation", items |-> <<>>, total |-> 0, totalPages |-> 0,
        hasNext |-> FALSE, hasPrev |-> FALSE]
  ELSE LET offset == (page - 1) * limit
           r == TaskRepository_getAllTasks(s, filters, sort, limit, offset)
           totalPages == ceilDiv(r.total, limit)
       IN [err |-> "none", items |-> r.items, total |-> r.total,
           totalPages |-> totalPages, hasNext |-> page < totalPages,
           hasPrev |-> page > 1]

(* a query of a service returned, or threw err *)
ServiceAnswered(op, query, r) ==
  /\ result.op = "none"
  /\ result' = [op |-> op, err |-> r.err, id |-> 0, flag |-> FALSE, n |-> 0,
                query |-> query,
                items |-> [i \in 1 .. Len(r.items) |-> r.items[i].id],
                total |-> r.total]
  /\ UNCHANGED <<storeVars, otherVars, now, requests>>

PageInputs == 0 .. MaxPage

LimitInputs == 1 .. MaxTasks

ServiceGetAllTasks ==
  \E filters \in TaskFilterInputs, sort \in TaskSortInputs,
     page \in PageInputs, limit \in LimitInputs :
     ServiceAnswered("TaskService.getAllTasks",
                     [filters |-> filters, sort |-> sort, page |-> page,
                      limit |-> limit],
                     TaskService_getAllTasks(Store, filters, sort, page, limit))

NextPages ==
  \/ QueryCreateList
  \/ QueryCreateTask
  \/ QueryCompleteTask
  \/ ServiceGetAllTasks

SpecPages == Init /\ [][NextPages]_vars

(* the ids of the filtered, sorted tasks of the store *)
Listing(filters, sort) ==
  LET all == sortTasks(applyFilters(tasks, filters),
                       sortOrDefault(sort, "created_at", "desc"))
  IN [i \in 1 .. Len(all) |-> all[i].id]

RECURSIVE PagesUpTo(_, _, _, _)
(* the pages 1 .. page of a listing, one after the other *)
PagesUpTo(filters, sort, page, limit) ==
  IF page = 0 THEN <<>>
  ELSE LET found == TaskService_getAllTasks(Store, filters, sort, page, limit)
       IN PagesUpTo(filters, sort, page - 1, limit)
          \o [i \in 1 .. Len(found.items) |-> found.items[i].id]

(* C21: the page returned by TaskService.getAllTasks for (page, limit),   *)
(* page >= 1, holds the elements at the positions (page-1)*limit up to    *)
(* but excluding page*limit of the filtered, sorted tasks; the pages      *)
(* 1 .. ceil(total/limit) one after the other are that whole sequence,    *)
(* each task once; and a filter that matches nothing or a page past the   *)
(* end gives an empty page and no error, with total 0 when nothing        *)
(* matches.                                                               *)
C21_PaginationPartition ==
  (result.op = "TaskService.getAllTasks" /\ result.query.page >= 1)
    => LET q == result.query
           all == Listing(q.filters, q.sort)
           first == (q.page - 1) * q.limit
           positions == { i \in 1 .. Len(all) :
                            i > first /\ i <= q.page * q.limit }
       IN /\ result.err = "none"
          /\ result.total = Len(all)
          /\ Len(result.items) = Cardinality(positions)
          /\ \A i \in 1 .. Len(result.items) :
               result.items[i] = all[first + i]
          /\ PagesUpTo(q.filters, q.sort, ceilDiv(Len(all), q.limit), q.limit)
               = all
          /\ NoRepeat(all)

(* the second page of one task, of two that pass the filter *)
C21_Witness ==
  /\ result.op = "TaskService.getAllTasks"
  /\ result.query.page = 2
  /\ result.query.limit = 1
  /\ result.total = 2
  /\ Len(result.items) = 1
  /\ Len(tasks) = 2

----------------------------------------------------------------------------
(* SpecSort: tasks of every priority are stored and one query sorted by   *)
(* priority is observed.                                                  *)

ByRank == { [field |-> "priority", order |-> "desc"],
            [field |-> "priority", order |-> "asc"] }

SortCreateTask ==
  /\ result.op = "none"
  /\ Len(tasks) < MaxTasks
  /\ \E input \in CreateTaskInputs({}) :
        /\ input.priority # ""
        /\ Returns(TaskRepository_createTask(Store, input))

SortAllTasks ==
  \E sort \in ByRank :
     Answered("getAllTasks",
              Query(0, "", NoDate, NoDate, NoFilters, sort, NoPage),
              TaskRepository_getAllTasks(Store, NoFilters, sort,
                                         NoNumber, NoNumber))

SortTasksByListId ==
  \E listId \in ListIdInputs, sort \in ByRank :
     Answered("getTasksByListId",
              Query(listId, "", NoDate, NoDate, NoFilters, sort, NoPage),
              TaskRepository_getTasksByListId(Store, listId, NoFilters, sort,
                                              NoNumber, NoNumber))

NextSort ==
  \/ QueryCreateList
  \/ SortCreateTask
  \/ SortAllTasks
  \/ SortTasksByListId

SpecSort == Init /\ [][NextSort]_vars

(* C22: a query sorted by priority returns its tasks by the rank high = 3, *)
(* medium = 2, low = 1: with order desc every high task comes before      *)
(* every medium task and every medium task before every low task, with    *)
(* order asc the other way round; a high and a low task of one list,      *)
(* queried by that list with priority desc, come back high first.         *)
C22_PriorityRank ==
  (result.op \in {"getAllTasks", "getTasksByListId"}
     /\ result.query.sort \in ByRank)
    => /\ Range(result.items) =
            { tasks[i].id : i \in { j \in 1 .. Len(tasks) :
                 result.op = "getTasksByListId"
                   => tasks[j].list_id = result.query.listId } }
       /\ NoRepeat(result.items)
       /\ \A i \in 1 .. Len(result.items), j \in 1 .. Len(result.items) :
            LET a == MapGet(tasks, result.items[i]).priority
                b == MapGet(tasks, result.items[j]).priority
                before == IF result.query.sort.order = "desc"
                          THEN { <<HIGH, MEDIUM>>, <<HIGH, LOW>>, <<MEDIUM, LOW>> }
                          ELSE { <<LOW, MEDIUM>>, <<LOW, HIGH>>, <<MEDIUM, HIGH>> }
            IN <<a, b>> \in before => i < j

(* a low task stored before a high task of the same list comes back       *)
(* after it when that list is queried with priority desc                  *)
C22_Witness ==
  /\ result.op = "getTasksByListId"
  /\ result.query.sort = [field |-> "priority", order |-> "desc"]
  /\ Len(tasks) = 2
  /\ tasks[1].priority = LOW
  /\ tasks[2].priority = HIGH
  /\ result.items = <<tasks[2].id, tasks[1].id>>

----------------------------------------------------------------------------
(* SpecClock: the clock advances between the calls.  A call is one step   *)
(* at one time, so every new Date() of the call reads the same now.  The  *)
(* last call is kept in result with the time it was made at; a step of    *)
(* the clock leaves result as it is.                                      *)

Tick ==
  /\ now < MaxClock
  /\ now' = now + 1
  /\ UNCHANGED <<storeVars, otherVars, result, requests>>

ClockListPatchInputs ==
  { [name |-> <<"c">>], [updated_at |-> 0], [created_at |-> MaxClock] }

ClockTaskPatchInputs ==
  { [status |-> status] : status \in TaskStatus }
  \cup { [list_id |-> lists[i].id] : i \in 1 .. Len(lists) }
  \cup { [updated_at |-> 0] }

(* the call and the time it was made at *)
CallAt(updates) == [updates |-> updates, at |-> now]

ClockCreateList ==
  \E input \in CreateListInputs(StoreNames, {}) :
     ObservedWith("createList", CallAt(<<>>),
                  ListRepository_createList(Store, input))

ClockCreateTask ==
  /\ Len(tasks) < MaxTasks
  /\ \E list_id \in ListIdInputs :
        ObservedWith("createTask", CallAt(<<>>),
                     TaskRepository_createTask(
                       Store, [list_id |-> list_id, title |-> <<"t">>,
                               deadline |-> NoDate, priority |-> ""]))

ClockUpdateList ==
  \E id \in ListIdInputs, updates \in ClockListPatchInputs :
     LET r == MemoryStore_updateList(Store, id, updates)
     IN ObservedWith("MemoryStore.updateList", CallAt(updates),
                     Outcome(r.s, "none", id, r.ok))

ClockUpdateTask ==
  \E id \in TaskIdInputs, updates \in ClockTaskPatchInputs :
     LET r == MemoryStore_updateTask(Store, id, updates)
     IN ObservedWith("MemoryStore.updateTask", CallAt(updates),
                     Outcome(r.s, "none", id, r.ok))

ClockDeleteTask ==
  \E id \in TaskIdInputs :
     LET r == MemoryStore_deleteTask(Store, id)
     IN ObservedWith("MemoryStore.deleteTask", CallAt(<<>>),
                     Outcome(r.s, "none", id, r.ok))

ClockCompleteTask ==
  \E id \in TaskIdInputs :
     ObservedWith("completeTask", CallAt(<<>>),
                  TaskRepository_completeTask(Store, id))

ClockUncompleteTask ==
  \E id \in TaskIdInputs :
     ObservedWith("uncompleteTask", CallAt(<<>>),
                  TaskRepository_uncompleteTask(Store, id))

NextClock ==
  \/ Tick
  \/ ClockCreateList
  \/ ClockCreateTask
  \/ ClockUpdateList
  \/ ClockUpdateTask
  \/ ClockDeleteTask
  \/ ClockCompleteTask
  \/ ClockUncompleteTask

SpecClock == Init /\ [][NextClock]_vars

(* the step is the call op, made now *)
Called(op) == now' = now /\ result'.op = op

(* the record of a successful updateList or updateTask, and every list    *)
(* whose count createTask, deleteTask or a move recomputed, has the time  *)
(* of the call as its updated_at                                          *)
RefreshedByCall ==
  /\ (Called("MemoryStore.updateList") /\ result'.flag)
       => MapGet(lists', result'.id).updated_at = now
  /\ (Called("MemoryStore.updateTask") /\ result'.flag)
       => LET updates == result'.input.updates
              old == MapGet(tasks, result'.id).list_id
          IN /\ MapGet(tasks', result'.id).updated_at = now
             /\ ("list_id" \in DOMAIN updates /\ updates.list_id # old)
                  => \A l \in {old, updates.list_id} :
                        MapHas(lists', l) => MapGet(lists', l).updated_at = now
  /\ (Called("createTask") /\ result'.err = "none")
       => MapGet(lists', MapGet(tasks', result'.id).list_id).updated_at = now
  /\ (Called("MemoryStore.deleteTask") /\ result'.flag)
       => LET old == MapGet(tasks, result'.id).list_id
          IN MapHas(lists', old) => MapGet(lists', old).updated_at = now

(* no updated_at of a record that stays stored goes back *)
NeverDecreases ==
  /\ \A i \in 1 .. Len(lists) :
       MapHas(lists', lists[i].id)
         => MapGet(lists', lists[i].id).updated_at >= lists[i].updated_at
  /\ \A i \in 1 .. Len(tasks) :
       MapHas(tasks', tasks[i].id)
         => MapGet(tasks', tasks[i].id).updated_at >= tasks[i].updated_at

NotBeforeCreation ==
  /\ \A i \in 1 .. Len(lists') : lists'[i].updated_at >= lists'[i].created_at
  /\ \A i \in 1 .. Len(tasks') : tasks'[i].updated_at >= tasks'[i].created_at

(* C23: a successful updateList or updateTask of the store leaves the     *)
(* time of the call in the record's updated_at whatever updated_at the    *)
(* patch carries; createTask, deleteTask and an updateTask that changes   *)
(* list_id leave the time of the call in the updated_at of every list     *)
(* whose tasks_count they recompute; and with a clock that never goes     *)
(* back no updated_at decreases or is earlier than the record's           *)
(* created_at.                                                            *)
C23_UpdatedAtRefreshed ==
  [][RefreshedByCall /\ NeverDecreases /\ NotBeforeCreation]_vars

----------------------------------------------------------------------------
(* The order of records with equal sort keys, checked under SpecQuery,    *)
(* where every record is created at the same time.                        *)

(* the place of the record id in its map, which is its place in the       *)
(* order of insertion: Map.set on a stored key keeps the key's place      *)
Inserted(map, id) == CHOOSE i \in 1 .. Len(map) : map[i].id = id

ByCreation == { NoSort, [field |-> "created_at", order |-> "asc"],
                [field |-> "created_at", order |-> "desc"] }

(* the records of the page come in the order of their insertion           *)
InInsertionOrder(map) ==
  \A i \in 1 .. Len(result.items), j \in 1 .. Len(result.items) :
     (/\ i < j
      /\ MapGet(map, result.items[i]).created_at
           = MapGet(map, result.items[j]).created_at)
       => Inserted(map, result.items[i]) < Inserted(map, result.items[j])

(* C24: records with equal created_at are returned by the task queries    *)
(* and by getAllLists in the order in which they were inserted into the   *)
(* store, under the default sort (created_at desc) and under a sort by    *)
(* created_at in either direction.                                        *)
C24_TieBreakInsertionOrder ==
  /\ (result.op \in {"getAllTasks", "getTasksByListId", "getTasksByStatus"}
        /\ result.query.sort \in ByCreation)
       => InInsertionOrder(tasks)
  /\ (result.op = "getAllLists" /\ result.query.sort \in ByCreation)
       => InInsertionOrder(lists)

----------------------------------------------------------------------------
(* SpecFile: the snapshot file of FileStore.  Values carry their          *)
(* JavaScript type, since JSON.stringify and JSON.parse decide by it.     *)
(* The file that saveToFile wrote is kept in result until loadFromFile    *)
(* reads it.                                                              *)

JsDate(time) == [kind |-> "Date", time |-> time]

JsString(text) == [kind |-> "string", text |-> text]

JsPlain(value) == [kind |-> "plain", value |-> value]

JsObject(fields) == [kind |-> "object", fields |-> fields]

DateFields == {"created_at", "updated_at", "deadline", "completed_at"}

(* Date.prototype.toISOString, to the millisecond *)
toISOString(time) == <<"1970-01-01T00:00:00.", time, "Z">>

(* new Date(isoString) *)
newDate(text) == text[2]

(* a stored record as the object it is in memory: its date fields are     *)
(* Date objects, a deadline or completed_at that is not set is no property *)
InMemory(record) ==
  [f \in { g \in DOMAIN record : g \in DateFields => record[g] # NoDate } |->
     IF f \in DateFields THEN JsDate(record[f]) ELSE JsPlain(record[f])]

dateReplacer(value) ==
  IF value.kind = "Date"
  THEN JsObject([__date |-> JsString(toISOString(value.time))])
  ELSE value

dateReviver(value) ==
  IF value.kind = "object" /\ "__date" \in DOMAIN value.fields
  THEN JsDate(newDate(value.fields.__date.text))
  ELSE value

(* SerializeJSONProperty of JSON.stringify: the value's toJSON is called  *)
(* first (a Date has one, which returns toISOString()), and the replacer  *)
(* is called with what toJSON returned                                    *)
SerializeJSONProperty(value) ==
  dateReplacer(IF value.kind = "Date"
               THEN JsString(toISOString(value.time)) ELSE value)

(* Object.fromEntries(map): the records by key, in the order of the map   *)
(* (the keys are uuids, no array indexes)                                 *)
stringify(map) ==
  [i \in 1 .. Len(map) |->
     [key |-> map[i].id,
      value |-> [f \in DOMAIN InMemory(map[i]) |->
                   SerializeJSONProperty(InMemory(map[i])[f])]]]

(* JSON.parse(jsonData, dateReviver) and new Map(Object.entries(...)) *)
parse(entries) ==
  [i \in 1 .. Len(entries) |->
     [key |-> entries[i].key,
      value |-> [f \in DOMAIN entries[i].value |->
                   dateReviver(entries[i].value[f])]]]

FileStore_saveToFile(listMap, taskMap) ==
  [lists |-> stringify(listMap), tasks |-> stringify(taskMap)]

FileStore_loadFromFile(file) ==
  [lists |-> parse(file.lists), tasks |-> parse(file.tasks)]

SaveToFile ==
  /\ result.op = "none"
  /\ Len(lists) > 0
  /\ result' = [op |-> "saveToFile", file |-> FileStore_saveToFile(lists, tasks)]
  /\ UNCHANGED <<storeVars, otherVars, now, requests>>

LoadFromFile ==
  /\ result.op = "saveToFile"
  /\ result' = [op |-> "loadFromFile",
                loaded |-> FileStore_loadFromFile(result.file)]
  /\ UNCHANGED <<storeVars, otherVars, now, requests>>

NextFile ==
  \/ QueryCreateList
  \/ QueryCreateTask
  \/ QueryCompleteTask
  \/ SaveToFile
  \/ LoadFromFile

SpecFile == Init /\ [][NextFile]_vars

(* the loaded map has the keys of the saved map, and under each key the   *)
(* record that was saved, its date fields Date objects of the same time   *)
SameMap(loaded, map) ==
  /\ Len(loaded) = Len(map)
  /\ \A i \in 1 .. Len(map) :
       /\ loaded[i].key = map[i].id
       /\ DOMAIN loaded[i].value = DOMAIN InMemory(map[i])
       /\ \A f \in DOMAIN loaded[i].value :
            /\ loaded[i].value[f].kind = InMemory(map[i])[f].kind
            /\ loaded[i].value[f] = InMemory(map[i])[f]

(* C25: loadFromFile applied to the file that saveToFile wrote returns    *)
(* maps with the same keys and records, every date field (created_at,     *)
(* updated_at, deadline, completed_at) again a date value equal to the    *)
(* one saved.                                                             *)
C25_SnapshotRoundTrip ==
  result.op = "loadFromFile"
    => /\ SameMap(result.loaded.lists, lists)
       /\ SameMap(result.loaded.tasks, tasks)

----------------------------------------------------------------------------
(* SpecDeadline: the two deadline listings of TaskService, each one call  *)
(* of TaskService.getAllTasks with a filter added, observed on a filled   *)
(* store.                                                                 *)

(* new Date('1900-01-01'): a time before every deadline *)
Date1900 == 0 - 1000

(* the limit the two listings default to *)
DefaultLimit == 50

TaskService_getTasksByDeadline(s, filters, page, limit, includeNullDeadlines) ==
  LET sort == [field |-> "deadline", order |-> "asc"]
      taskFilters == IF ~includeNullDeadlines
                     THEN [filters EXCEPT !.deadline_from = Date1900]
                     ELSE filters
  IN TaskService_getAllTasks(s, taskFilters, sort, page, limit)

TaskService_getOverdueTasks(s, filters, sort, page, limit) ==
  LET overdueFilters == [filters EXCEPT !.deadline_to = now,
                                        !.status = PENDING]
  IN TaskService_getAllTasks(s, overdueFilters,
                             sortOrDefault(sort, "deadline", "asc"),
                             page, limit)

ServiceGetTasksByDeadline ==
  \E filters \in ByPriority, limit \in {1, DefaultLimit},
     includeNullDeadlines \in BOOLEAN :
     ServiceAnswered("TaskService.getTasksByDeadline",
                     [filters |-> filters, page |-> 1, limit |-> limit,
                      includeNullDeadlines |-> includeNullDeadlines],
                     TaskService_getTasksByDeadline(
                       Store, filters, 1, limit, includeNullDeadlines))

ServiceGetOverdueTasks ==
  \E filters \in ByPriority, limit \in {1, DefaultLimit} :
     ServiceAnswered("TaskService.getOverdueTasks",
                     [filters |-> filters, page |-> 1, limit |-> limit,
                      at |-> now],
                     TaskService_getOverdueTasks(
                       Store, filters, NoSort, 1, limit))

NextDeadline ==
  \/ QueryCreateList
  \/ QueryCreateTask
  \/ QueryCompleteTask
  \/ ServiceGetTasksByDeadline
  \/ ServiceGetOverdueTasks

SpecDeadline == Init /\ [][NextDeadline]_vars

(* the stored tasks that pass the filters a caller gave *)
Matching(filters) ==
  { i \in 1 .. Len(tasks) : Len(applyFilters(<<tasks[i]>>, filters)) = 1 }

(* every returned task is pending *)
OverduePending ==
  \A k \in 1 .. Len(result.items) :
     MapGet(tasks, result.items[k]).status = PENDING

(* every returned task has a deadline, not later than the call *)
OverduePast ==
  \A k \in 1 .. Len(result.items) :
     /\ MapGet(tasks, result.items[k]).deadline # NoDate
     /\ MapGet(tasks, result.items[k]).deadline <= result.query.at

(* every pending task with a deadline not later than the call is counted, *)
(* and is on the page when the page holds them all                        *)
OverdueAll ==
  LET due == { i \in Matching(result.query.filters) :
                 /\ tasks[i].status = PENDING
                 /\ tasks[i].deadline # NoDate
                 /\ tasks[i].deadline <= result.query.at }
  IN /\ result.total >= Cardinality(due)
     /\ result.query.limit = DefaultLimit
          => { tasks[i].id : i \in due } \subseteq Range(result.items)

(* C26: every task that getOverdueTasks returns is pending and has a      *)
(* deadline not later than the time of the call, every stored pending     *)
(* task with such a deadline that passes the extra filters is counted,    *)
(* and no task without a deadline is returned.                            *)
C26_OverdueQuery ==
  result.op = "TaskService.getOverdueTasks"
    => (result.err = "none" /\ OverduePending /\ OverduePast /\ OverdueAll)

(* the tasks with a deadline that pass the caller's filters *)
Dated(filters) == { i \in Matching(filters) : tasks[i].deadline # NoDate }

(* without tasks that lack a deadline: none is returned or counted *)
DeadlinesOnly ==
  /\ \A k \in 1 .. Len(result.items) :
       MapGet(tasks, result.items[k]).deadline # NoDate
  /\ result.total = Cardinality(Dated(result.query.filters))

(* with them: all are counted, and they come after the tasks with one *)
NullDeadlinesLast ==
  /\ result.total = Cardinality(Matching(result.query.filters))
  /\ result.query.limit = DefaultLimit
       => Range(result.items)
            = { tasks[i].id : i \in Matching(result.query.filters) }
  /\ \A k \in 1 .. Len(result.items), l \in 1 .. Len(result.items) :
       (/\ MapGet(tasks, result.items[k]).deadline # NoDate
        /\ MapGet(tasks, result.items[l]).deadline = NoDate) => k < l

(* C27: getTasksByDeadline with includeNullDeadlines = false returns no   *)
(* task that lacks a deadline and counts only tasks that have one; with   *)
(* includeNullDeadlines = true the tasks without a deadline are included  *)
(* and come after all tasks with a deadline.                              *)
C27_DeadlineListing ==
  result.op = "TaskService.getTasksByDeadline"
    => /\ result.err = "none"
       /\ IF result.query.includeNullDeadlines
          THEN NullDeadlinesLast ELSE DeadlinesOnly

----------------------------------------------------------------------------
(* SpecMove: ListService.deleteList with the option moveTasksToListId,    *)
(* one such call at a time, with creations of tasks in flight beside it.  *)
(* The call passes five awaits: getListById of the list, getListById of   *)
(* the target, getTasksByListId in moveAllTasksToList, the updateTask of  *)
(* each task of the loop, and moveAllTasksToList itself; the repository's *)
(* deleteList and the return are its last step.                           *)

(* a call in flight runs from one await to the next and leaves the store s *)
AwaitWith(r, request, s) ==
  /\ Install(s)
  /\ requests' = (requests (-) SetToBag({r})) (+) SetToBag({request})
  /\ result' = NoResult
  /\ UNCHANGED now

(* { list_id: toListId } *)
MovePatch(toListId) ==
  [title |-> <<>>, deadline |-> NoDate, priority |-> "", status |-> "",
   list_id |-> toListId]

(* up to the await of getListById(id) *)
ListService_deleteListMove ==
  \E id \in ListIdInputs, target \in ListIdInputs :
     /\ target # id
     /\ \A r \in InFlight : r.op # "deleteListMove"
     /\ Begin(Request("deleteListMove", "checked", id,
                       [moveTasksToListId |-> target], MapHas(lists, id)))

(* ... to the await of getListById(moveTasksToListId) *)
ListService_deleteListMove_checked ==
  \E r \in InFlight :
     /\ r.op = "deleteListMove"
     /\ r.pc = "checked"
     /\ IF ~r.seen THEN Settle(r, "notfound", r.id, Store)
        ELSE Await(r, [r EXCEPT !.pc = "target",
                                !.seen = MapHas(lists, r.input.moveTasksToListId)])

(* ... into moveAllTasksToList, to the await of getTasksByListId; seen    *)
(* becomes the ids of the tasks it returned                               *)
ListService_deleteListMove_target ==
  \E r \in InFlight :
     /\ r.op = "deleteListMove"
     /\ r.pc = "target"
     /\ IF ~r.seen THEN Settle(r, "notfound", r.id, Store)
        ELSE LET found == TaskRepository_getTasksByListId(
                            Store, r.id, NoFilters, NoSort, NoNumber, NoNumber)
             IN Await(r, [r EXCEPT !.pc = "moving",
                            !.seen = [i \in 1 .. Len(found.items) |->
                                        found.items[i].id]])

(* ... one turn of the loop, to the await of updateTask; after the last   *)
(* turn moveAllTasksToList returns, which deleteList awaits               *)
ListService_deleteListMove_moving ==
  \E r \in InFlight :
     /\ r.op = "deleteListMove"
     /\ r.pc = "moving"
     /\ IF r.seen = <<>> THEN Await(r, [r EXCEPT !.pc = "moved"])
        ELSE LET o == TaskRepository_updateTask(
                        Store, Head(r.seen),
                        MovePatch(r.input.moveTasksToListId))
             IN IF o.err = "nolist" THEN Settle(r, o.err, r.id, Store)
                ELSE AwaitWith(r, [r EXCEPT !.seen = Tail(r.seen)], o.s)

(* ... and from there on: deleteAssociatedTasks is true by default *)
ListService_deleteListMove_moved ==
  \E r \in InFlight :
     /\ r.op = "deleteListMove"
     /\ r.pc = "moved"
     /\ LET o == ListRepository_deleteList(Store, r.id, TRUE)
        IN Settle(r, o.err, r.id, o.s)

NextMove ==
  \/ CreateList
  \/ TaskService_createTask
  \/ TaskService_createTask_validated
  \/ ListService_deleteListMove
  \/ ListService_deleteListMove_checked
  \/ ListService_deleteListMove_target
  \/ ListService_deleteListMove_moving
  \/ ListService_deleteListMove_moved

SpecMove == Init /\ [][NextMove]_vars

(* the step is the successful end of a deleteList that moves the tasks *)
Moved == result'.op = "deleteListMove" /\ result'.err = "none"

(* C28: when deleteList(id, {moveTasksToListId: T}), T a stored list other *)
(* than id, ends successfully, whatever creations of tasks in list id ran *)
(* beside it: every task that referred to list id is stored with list_id  *)
(* T, the call deleted no task, the tasks_count of T is the number of     *)
(* tasks that refer to T, and list id is not found.                       *)
C28_DeleteWithMove ==
  [][ Moved =>
        LET id == result'.id
            T == result'.input.moveTasksToListId
        IN /\ \A i \in 1 .. Len(tasks) :
                /\ MapHas(tasks', tasks[i].id)
                /\ tasks[i].list_id = id
                     => MapGet(tasks', tasks[i].id).list_id = T
           /\ ~MapHas(lists', id)
           /\ MapHas(lists', T)
           /\ MapGet(lists', T).tasks_count
                = Cardinality({ i \in 1 .. Len(tasks') : tasks'[i].list_id = T })
           /\ \A i \in 1 .. Len(tasks') : tasks'[i].list_id # id ]_vars

----------------------------------------------------------------------------
(* Completion and the frame of the task mutations, checked under          *)
(* SpecClock.                                                             *)

(* the step is the call op on a stored task whose status was status *)
CalledOn(op, status) ==
  /\ Called(op)
  /\ MapHas(tasks, result'.id)
  /\ MapGet(tasks, result'.id).status = status

(* C29: completeTask on a completed task, and an updateTask of the store  *)
(* whose patch sets status = completed on a completed task, leave the     *)
(* task's completed_at as the first completion set it; uncompleteTask on  *)
(* a pending task leaves the task as it is; and uncompleteTask on a       *)
(* completed task leaves it pending, with no completed_at, in the pending *)
(* bucket of the status index and in no other.                            *)
C29_CompletionIdempotent ==
  [][ /\ CalledOn("completeTask", COMPLETED) => UNCHANGED storeVars
      /\ (/\ CalledOn("MemoryStore.updateTask", COMPLETED)
          /\ "status" \in DOMAIN result'.input.updates
          /\ result'.input.updates.status = COMPLETED)
           => MapGet(tasks', result'.id).completed_at
                = MapGet(tasks, result'.id).completed_at
      /\ CalledOn("uncompleteTask", PENDING) => UNCHANGED storeVars
      /\ CalledOn("uncompleteTask", COMPLETED)
           => /\ MapGet(tasks', result'.id).status = PENDING
              /\ MapGet(tasks', result'.id).completed_at = NoDate
              /\ BucketsOf(tasksByStatus', result'.id) = {PENDING} ]_vars

(* a task completed at time 0 was patched to completed again at a later   *)
(* time and still has the completion time 0                               *)
C29_Witness ==
  /\ result.op = "MemoryStore.updateTask"
  /\ result.flag
  /\ result.input.updates = [status |-> COMPLETED]
  /\ result.input.at > 0
  /\ MapHas(tasks, result.id)
  /\ MapGet(tasks, result.id).status = COMPLETED
  /\ MapGet(tasks, result.id).completed_at = 0
  /\ MapGet(tasks, result.id).updated_at = result.input.at

(* the step is a successful createTask, updateTask or deleteTask *)
TaskMutated ==
  \/ Called("createTask") /\ result'.err = "none"
  \/ Called("MemoryStore.updateTask") /\ result'.flag
  \/ Called("MemoryStore.deleteTask") /\ result'.flag

(* the lists the task id refers to before and after the step *)
ListsOf(id) ==
  { MapGet(tasks, id).list_id : x \in { y \in {0} : MapHas(tasks, id) } }
  \cup { MapGet(tasks', id).list_id : x \in { y \in {0} : MapHas(tasks', id) } }

----------------------------------------------------------------------------
(* SpecBulk: TaskService.bulkUpdateTasksStatus, one call with nothing in  *)
(* flight beside it, so that its awaits follow one another on the same    *)
(* store and the call is one step.                                        *)

(* if (!updatedTask) throw new AppError(INTERNAL_ERROR): a repository    *)
(* call that returned null becomes a throw that leaves the store alone    *)
orInternalError(o, s, id) ==
  IF o.err = "none" THEN o ELSE Outcome(s, "internal", id, FALSE)

(* TaskService.completeTask with no other call in flight *)
TaskService_completeTask(s, id) ==
  IF ~MapHas(s.tasks, id) THEN Outcome(s, "notfound", id, FALSE)
  ELSE IF MapGet(s.tasks, id).status = COMPLETED
  THEN Outcome(s, "none", id, FALSE)
  ELSE orInternalError(TaskRepository_completeTask(s, id), s, id)

(* TaskService.updateTask(id, { status }) with no other call in flight *)
TaskService_updateTaskStatus(s, id, status) ==
  IF ~MapHas(s.tasks, id) THEN Outcome(s, "notfound", id, FALSE)
  ELSE orInternalError(
         TaskRepository_updateTask(
           s, id, [title |-> <<>>, deadline |-> NoDate, priority |-> "",
                   status |-> status, list_id |-> 0]),
         s, id)

(* the body of the try block of bulkUpdateTasksStatus *)
bulkTurn(s, taskId, status) ==
  IF status = COMPLETED THEN TaskService_completeTask(s, taskId)
  ELSE TaskService_updateTaskStatus(s, taskId, status)

(* updated.push(task) after the call, failed.push({ id, error }) in the   *)
(* catch block; acc is the store with the two arrays collected so far     *)
bulkPush(o, acc, taskId) ==
  IF o.err = "none"
  THEN [s |-> o.s, updated |-> Append(acc.updated, taskId),
        failed |-> acc.failed, threw |-> FALSE]
  ELSE [s |-> acc.s, updated |-> acc.updated,
        failed |-> Append(acc.failed, taskId), threw |-> TRUE]

RECURSIVE bulkLoop_stopOnFailure(_, _, _, _)
bulkLoop_stopOnFailure(acc, taskIds, status, i) ==
  IF i > Len(taskIds) \/ acc.threw THEN acc
  ELSE bulkLoop_stopOnFailure(
         bulkPush(bulkTurn(acc.s, taskIds[i], status), acc, taskIds[i]),
         taskIds, status, i + 1)

RECURSIVE bulkLoop(_, _, _, _)
(* for (const taskId of taskIds) { try { ... } catch (error) { ... } } *)
bulkLoop(acc, taskIds, status, i) ==
  IF i > Len(taskIds) THEN acc
  ELSE bulkLoop(
         bulkPush(bulkTurn(acc.s, taskIds[i], status), acc, taskIds[i]),
         taskIds, status, i + 1)

bulkSummary(r, taskIds) ==
  [s |-> r.s, updated |-> r.updated, failed |-> r.failed,
   summary |-> [total |-> Len(taskIds), successful |-> Len(r.updated),
                failed |-> Len(r.failed)]]

TaskService_bulkUpdateTasksStatus(s, taskIds, status) ==
  bulkSummary(bulkLoop([s |-> s, updated |-> <<>>, failed |-> <<>>,
                        threw |-> FALSE], taskIds, status, 1), taskIds)

BulkIdInputs == UNION { [1 .. n -> TaskIdInputs] : n \in 0 .. MaxBulk }

BulkCreateTask ==
  /\ result.op = "none"
  /\ Len(tasks) < MaxTasks
  /\ \E list_id \in ListIdInputs :
        Returns(TaskRepository_createTask(
                  Store, [list_id |-> list_id, title |-> <<"t">>,
                          deadline |-> NoDate, priority |-> ""]))

BulkUpdateTasksStatus ==
  /\ result.op = "none"
  /\ \E taskIds \in BulkIdInputs, status \in TaskStatus :
        \E r \in { TaskService_bulkUpdateTasksStatus(Store, taskIds, status) } :
           /\ Install(r.s)
           /\ result' = [op |-> "bulkUpdateTasksStatus", taskIds |-> taskIds,
                         status |-> status, updated |-> r.updated,
                         failed |-> r.failed, summary |-> r.summary]
           /\ UNCHANGED <<now, requests>>

NextBulk ==
  \/ QueryCreateList
  \/ BulkCreateTask
  \/ QueryCompleteTask
  \/ BulkUpdateTasksStatus

SpecBulk == Init /\ [][NextBulk]_vars

(* C31: bulkUpdateTasksStatus puts every position of its input, unknown   *)
(* and repeated ids included, in exactly one of updated and failed, so    *)
(* total = successful + failed = the number of input ids; the ids of      *)
(* stored tasks are all updated, whatever ids failed before or after      *)
(* them; and every id in updated is stored with the requested status.     *)
C31_BulkPerItem ==
  result.op = "bulkUpdateTasksStatus"
    => /\ result.updated
            = SelectSeq(result.taskIds, LAMBDA id : MapHas(tasks, id))
       /\ result.failed
            = SelectSeq(result.taskIds, LAMBDA id : ~MapHas(tasks, id))
       /\ result.summary.total = Len(result.taskIds)
       /\ result.summary.successful = Len(result.updated)
       /\ result.summary.failed = Len(result.failed)
       /\ result.summary.total
            = result.summary.successful + result.summary.failed
       /\ \A k \in 1 .. Len(result.updated) :
            MapGet(tasks, result.updated[k]).status = result.status
       /\ \A i \in 1 .. Len(tasks) :
            tasks[i].id \notin Range(result.taskIds)
              => BucketsOf(tasksByStatus, tasks[i].id) = {tasks[i].status}

(* an unknown id came first, then a pending task twice: the unknown id    *)
(* failed and both positions of the task are in updated                   *)
C31_Witness ==
  /\ result.op = "bulkUpdateTasksStatus"
  /\ result.status = COMPLETED
  /\ Len(result.taskIds) = 3
  /\ ~MapHas(tasks, result.taskIds[1])
  /\ result.taskIds[2] = result.taskIds[3]
  /\ result.updated = <<result.taskIds[2], result.taskIds[3]>>
  /\ result.failed = <<result.taskIds[1]>>
  /\ MapGet(tasks, result.taskIds[2]).completed_at = now

----------------------------------------------------------------------------
(* SpecMeta: the pagination metadata of ListService.getAllLists and of    *)
(* TaskService.getAllTasks, one query on a filled store.                  *)

ListService_getAllLists(s, filters, sort, page, limit) ==
  IF page < 1 \/ limit < 1 \/ limit > 100
  THEN [err |-> "validation", items |-> <<>>, total |-> 0, totalPages |-> 0,
        hasNext |-> FALSE, hasPrev |-> FALSE]
  ELSE LET offset == (page - 1) * limit
           r == ListRepository_getAllLists(s, filters, sort, limit, offset)
           totalPages == ceilDiv(r.total, limit)
       IN [err |-> "none", items |-> r.items, total |-> r.total,
           totalPages |-> totalPages, hasNext |-> page < totalPages,
           hasPrev |-> page > 1]

(* a paged query of a service returned its page with the metadata *)
PageAnswered(op, query, r) ==
  /\ result.op = "none"
  /\ result' = [op |-> op, err |-> r.err, query |-> query,
                items |-> [i \in 1 .. Len(r.items) |-> r.items[i].id],
                total |-> r.total, totalPages |-> r.totalPages,
                hasNext |-> r.hasNext, hasPrev |-> r.hasPrev]
  /\ UNCHANGED <<storeVars, otherVars, now, requests>>

PagedGetAllLists ==
  \E filters \in ListFilterInputs, sort \in ListSortInputs,
     page \in PageInputs, limit \in LimitInputs :
     PageAnswered("ListService.getAllLists",
                  [filters |-> filters, sort |-> sort, page |-> page,
                   limit |-> limit],
                  ListService_getAllLists(Store, filters, sort, page, limit))

PagedGetAllTasks ==
  \E filters \in TaskFilterInputs, sort \in TaskSortInputs,
     page \in PageInputs, limit \in LimitInputs :
     PageAnswered("TaskService.getAllTasks",
                  [filters |-> filters, sort |-> sort, page |-> page,
                   limit |-> limit],
                  TaskService_getAllTasks(Store, filters, sort, page, limit))

NextMeta ==
  \/ QueryCreateList
  \/ QueryCreateTask
  \/ QueryCompleteTask
  \/ PagedGetAllLists
  \/ PagedGetAllTasks

SpecMeta == Init /\ [][NextMeta]_vars

(* page p of the query whose answer is in result, asked again of the     *)
(* store as it is                                                         *)
PageOf(p) ==
  IF result.op = "ListService.getAllLists"
  THEN ListService_getAllLists(Store, result.query.filters,
                               result.query.sort, p, result.query.limit).items
  ELSE TaskService_getAllTasks(Store, result.query.filters,
                               result.query.sort, p, result.query.limit).items

(* the number of records that pass the filter of the query in result *)
FilteredCount ==
  IF result.op = "ListService.getAllLists"
  THEN Cardinality(ListsMatching(result.query.filters.search))
  ELSE Len(applyFilters(tasks, result.query.filters))

(* the metadata of the answer in result match the pages of the store *)
MetadataMatchPages ==
  /\ result.hasNext <=> PageOf(result.query.page + 1) # <<>>
  /\ result.totalPages
       = Cardinality({ p \in 1 .. Len(lists) + Len(tasks) + 1 :
                         PageOf(p) # <<>> })
  /\ result.totalPages = ceilDiv(FilteredCount, result.query.limit)
  /\ result.hasPrev <=> result.query.page > 1

(* C32: for list queries and task queries alike, in a fixed store state,  *)
(* hasNext returned for page p is true exactly when page p+1 holds at     *)
(* least one record, totalPages is the number of non-empty pages (the     *)
(* ceiling of the filtered count over limit), and hasPrev is true exactly *)
(* when p > 1.                                                            *)
C32_PaginationMetadata ==
  (result.op \in {"ListService.getAllLists", "TaskService.getAllTasks"}
     /\ result.err = "none")
    => MetadataMatchPages

(* the part of C32 about task queries *)
C32_TaskQueries ==
  (result.op = "TaskService.getAllTasks" /\ result.err = "none")
    => MetadataMatchPages

(* the part of C32 about list queries without a search term *)
C32_ListQueriesUnfiltered ==
  (result.op = "ListService.getAllLists" /\ result.err = "none"
     /\ Len(result.query.filters.search) = 0)
    => MetadataMatchPages

----------------------------------------------------------------------------
(* SpecStats: the counters of MemoryStore.stats under creations,          *)
(* deletions (of lists with their tasks) and clear, with getStats read    *)
(* in between.                                                            *)

MemoryStore_clear(s) ==
  [s EXCEPT !.lists = <<>>, !.tasks = <<>>,
            !.tasksByListId = EmptyIndex, !.tasksByStatus = EmptyIndex,
            !.tasksByPriority = EmptyIndex,
            !.tasksByDeadlineDate = EmptyIndex,
            !.stats.listsCount = 0, !.stats.tasksCount = 0]

(* return { ...this.stats } *)
MemoryStore_getStats(s) == s.stats

StatsDeleteList ==
  \E id \in ListIdInputs :
     Observed("deleteList", ListRepository_deleteList(Store, id, TRUE))

Clear ==
  /\ Install(MemoryStore_clear(Store))
  /\ result' = Res("clear", "none", 0, TRUE, 0)
  /\ UNCHANGED <<now, requests>>

GetStats ==
  /\ result' = [op |-> "getStats", err |-> "none",
                stats |-> MemoryStore_getStats(Store)]
  /\ UNCHANGED <<storeVars, otherVars, now, requests>>

NextStats ==
  \/ CreateList
  \/ CreateTask
  \/ StatsDeleteList
  \/ DeleteTask
  \/ Clear
  \/ GetStats

SpecStats == Init /\ [][NextStats]_vars

(* C37: after any sequence of createList, createTask, deleteList with its *)
(* cascade, deleteTask and clear from the empty store, stats.listsCount   *)
(* is lists.size and stats.tasksCount is tasks.size, and getStats reports *)
(* these counts.                                                          *)
C37_StatsTrackMaps ==
  /\ stats.listsCount = Len(lists)
  /\ stats.tasksCount = Len(tasks)
  /\ result.op = "getStats"
       => /\ result.stats.listsCount = Len(lists)
          /\ result.stats.tasksCount = Len(tasks)

(* a list was deleted with its one task while another list stays *)
C37_Witness ==
  /\ result.op = "deleteList"
  /\ result.err = "none"
  /\ result.n = 1
  /\ stats = [listsCount |-> 1, tasksCount |-> 0]
  /\ Len(lists) = 1

----------------------------------------------------------------------------
(* SpecLimiter: one RateLimiter.  limiter.store is its Map from key to    *)
(* entry object.  A new object is made for a key only after the           *)
(* resetTime of the one before, with a later resetTime, so an object is   *)
(* named by its key and its resetTime; a finish callback holds that name. *)
(* An object that has left the Map is reachable from finish callbacks     *)
(* only, and what they do to it is not kept.  Date.now() is now, one tick *)
(* a millisecond.  The fields passed and rejected of an entry are         *)
(* history: how many requests of the window were passed on (counted up to *)
(* maxRequests + 1) and whether one was answered 429.                     *)

KeyInputs == { "a", "b" }

StatusCodes == { 200, 404 }

LimiterOptions ==
  [windowMs : 1 .. MaxWindowMs, maxRequests : 1 .. MaxLimit,
   skipSuccessfulRequests : BOOLEAN, skipFailedRequests : BOOLEAN]

(* entry = { count: 0, resetTime: now + this.options.windowMs } *)
RateLimitEntry(options, key, t) ==
  [id |-> key, count |-> 0, resetTime |-> t + options.windowMs,
   passed |-> 0, rejected |-> FALSE]

shouldSkip(options, statusCode) ==
  \/ options.skipSuccessfulRequests /\ statusCode < 400
  \/ options.skipFailedRequests /\ statusCode >= 400

RateLimiter_cleanup_atResetTime(l, t) ==
  [l EXCEPT !.store = SelectSeq(@, LAMBDA entry : ~(t >= entry.resetTime))]

RateLimiter_cleanup(l, t) ==
  [l EXCEPT !.store = SelectSeq(@, LAMBDA entry : ~(t > entry.resetTime))]

(* if (!entry || now > entry.resetTime) { entry = ...; store.set(key, entry) } *)
withEntry(l, key, t) ==
  IF ~MapHas(l.store, key) \/ t > MapGet(l.store, key).resetTime
  THEN [l EXCEPT !.store = MapSet(@, RateLimitEntry(l.options, key, t))]
  ELSE l

(* entry.count++ and next() *)
passOn(l, entry) ==
  [l |-> [l EXCEPT !.store =
            MapSet(@, [entry EXCEPT
                         !.count = @ + 1,
                         !.passed = IF @ > l.options.maxRequests
                                    THEN @ ELSE @ + 1])],
   status |-> "next", entry |-> entry.resetTime]

countRequest_noCheck(l, entry) == passOn(l, entry)

(* the handler from the check of the limit on, entry being in the store *)
countRequest(l, entry) ==
  IF entry.count >= l.options.maxRequests
  THEN [l |-> [l EXCEPT !.store =
                 MapSet(@, [entry EXCEPT !.rejected = TRUE])],
        status |-> "429", entry |-> entry.resetTime]
  ELSE passOn(l, entry)

middlewareOn(l, key) == countRequest(l, MapGet(l.store, key))

RateLimiter_middleware(l, key, t) == middlewareOn(withEntry(l, key, t), key)

(* entry.count-- on the object that is in the Map under key *)
lower(l, key) ==
  [l EXCEPT !.store =
     MapSet(@, [MapGet(l.store, key) EXCEPT !.count = @ - 1])]

RateLimiter_finish_byKey(l, key, resetTime, statusCode) ==
  IF shouldSkip(l.options, statusCode) /\ MapHas(l.store, key)
  THEN lower(l, key)
  ELSE l

(* res.on('finish', () => { if (this.shouldSkip(req, res)) entry.count-- }) *)
(* of a request with this key that was counted on the object with this    *)
(* resetTime                                                               *)
RateLimiter_finish(l, key, resetTime, statusCode) ==
  IF shouldSkip(l.options, statusCode) /\ MapHas(l.store, key)
     /\ MapGet(l.store, key).resetTime = resetTime
  THEN lower(l, key)
  ELSE l

InitLimiter ==
  /\ lists = <<>>
  /\ tasks = <<>>
  /\ tasksByListId = EmptyIndex
  /\ tasksByStatus = EmptyIndex
  /\ tasksByPriority = EmptyIndex
  /\ tasksByDeadlineDate = EmptyIndex
  /\ stats = NoStats
  /\ now = 0
  /\ result = NoResult
  /\ requests = NoRequests
  /\ \E options \in LimiterOptions :
        limiter = [options |-> options, store |-> <<>>]
  /\ users = <<>>

LimiterTick ==
  /\ now < MaxTime
  /\ now' = now + 1
  /\ UNCHANGED <<storeVars, otherVars, result, requests>>

(* a request arrives: the handler runs to its end, answering 429 or      *)
(* calling next() with its finish callback registered                     *)
Middleware ==
  \E key \in KeyInputs :
     \E o \in { RateLimiter_middleware(limiter, key, now) } :
        /\ o.status = "429" \/ CanBegin
        /\ limiter' = o.l
        /\ requests' =
             IF o.status = "next"
             THEN requests
                    (+) SetToBag({Request("response", "finish", o.entry,
                                          key, 0)})
             ELSE requests
        /\ result' = [op |-> "middleware", key |-> key,
                      status |-> o.status, entry |-> o.entry,
                      replaced |-> /\ MapHas(limiter.store, key)
                                   /\ now > MapGet(limiter.store,
                                                   key).resetTime
                                   /\ MapGet(limiter.store, key).rejected]
        /\ UNCHANGED <<storeVars, users, now>>

(* the response of a request that was passed on finishes *)
Finish ==
  \E r \in InFlight, statusCode \in StatusCodes :
     /\ r.op = "response"
     /\ limiter' = RateLimiter_finish(limiter, r.input, r.id, statusCode)
     /\ requests' = requests (-) SetToBag({r})
     /\ result' = [op |-> "finish", key |-> r.input, entry |-> r.id,
                   skipped |-> shouldSkip(limiter.options, statusCode)]
     /\ UNCHANGED <<storeVars, users, now>>

(* setInterval(() => this.cleanup(), 60000) *)
Cleanup ==
  /\ limiter' = RateLimiter_cleanup(limiter, now)
  /\ result' = [op |-> "cleanup"]
  /\ UNCHANGED <<storeVars, users, now, requests>>

NextLimiter ==
  \/ LimiterTick
  \/ Middleware
  \/ Finish
  \/ Cleanup

SpecLimiter == InitLimiter /\ [][NextLimiter]_vars

NoSkip ==
  /\ ~limiter.options.skipSuccessfulRequests
  /\ ~limiter.options.skipFailedRequests

(* this step is the handler run for a request with this key *)
Arrives(key) ==
  /\ now' = now
  /\ result'.op = "middleware"
  /\ result'.key = key

(* this step is the finish callback of a response *)
Finishes ==
  /\ now' = now
  /\ result'.op = "finish"
  /\ requests' # requests

(* the request with this key finds its window used up *)
UsedUp(key) ==
  /\ MapHas(limiter.store, key)
  /\ MapGet(limiter.store, key).passed >= limiter.options.maxRequests
  /\ now <= MapGet(limiter.store, key).resetTime

C34_CounterRange ==
  [][ ~NoSkip =>
        /\ \A i \in 1 .. Len(limiter'.store) :
             /\ limiter'.store[i].count >= 0
             /\ limiter'.store[i].count <= limiter.options.maxRequests
        /\ Finishes =>
             \A i \in 1 .. Len(limiter.store) :
                (\/ limiter.store[i].id # result'.key
                 \/ limiter.store[i].resetTime # result'.entry)
                  => limiter'.store[i] = limiter.store[i] ]_vars

(* a skipped response finishes when its key has a new entry, on which a   *)
(* request of the new window is counted                                   *)
C34_Witness ==
  /\ ~NoSkip
  /\ result.op = "finish"
  /\ result.skipped
  /\ MapHas(limiter.store, result.key)
  /\ MapGet(limiter.store, result.key).resetTime > result.entry
  /\ MapGet(limiter.store, result.key).count = 1
  /\ BagCardinality(requests) = 1

(* C35: a request that arrives for a key after the resetTime of its       *)
(* entry, or after the cleanup removed that entry, is admitted: the key   *)
(* gets a new entry with resetTime = now + windowMs that counts this      *)
(* request alone; and the cleanup removes no entry whose resetTime has    *)
(* not passed.                                                            *)
C35_WindowReset ==
  [][ /\ \A key \in KeyInputs :
           (/\ Arrives(key)
            /\ \/ ~MapHas(limiter.store, key)
               \/ now > MapGet(limiter.store, key).resetTime)
             => /\ result'.status = "next"
                /\ MapGet(limiter'.store, key) =
                     [RateLimitEntry(limiter.options, key, now)
                        EXCEPT !.count = 1, !.passed = 1]
                /\ requests' # requests
      /\ (now' = now /\ result'.op = "cleanup")
           => \A i \in 1 .. Len(limiter.store) :
                 now <= limiter.store[i].resetTime
                   => /\ MapHas(limiter'.store, limiter.store[i].id)
                      /\ MapGet(limiter'.store, limiter.store[i].id)
                           = limiter.store[i] ]_vars

(* a key that was answered 429 is admitted after the resetTime of the     *)
(* entry that rejected it                                                 *)
C35_Witness ==
  /\ result.op = "middleware"
  /\ result.status = "next"
  /\ result.replaced
  /\ MapGet(limiter.store, result.key).count = 1
  /\ MapGet(limiter.store, result.key).resetTime
       = now + limiter.options.windowMs

----------------------------------------------------------------------------
(* SpecUsers: the users array of the UserRepository under calls of        *)
(* create that are in flight together.  A call runs from its start to     *)
(* the await of bcrypt.hash in one step and from there to its end in      *)
(* another; the constructor has started createDefaultUsers, whose first   *)
(* create waits for its hash when the run begins.                         *)

AdminEmail == "admin@todoapi.com"

TestEmail == "user@todoapi.com"

EmailInputs == { AdminEmail, TestEmail, "new@todoapi.com" }

(* this.users.find(user => user.email === userData.email) *)
existingUser(u, email) == \E i \in 1 .. Len(u) : u[i].email = email

(* this.users.push(user), the id a fresh uuid *)
pushUser(u, email) == Append(u, [id |-> Len(u) + 1, email |-> email])

InitUsers ==
  /\ lists = <<>>
  /\ tasks = <<>>
  /\ tasksByListId = EmptyIndex
  /\ tasksByStatus = EmptyIndex
  /\ tasksByPriority = EmptyIndex
  /\ tasksByDeadlineDate = EmptyIndex
  /\ stats = NoStats
  /\ now = 0
  /\ result = NoResult
  /\ requests = SetToBag({Request("createDefaultUsers", "hash",
                                  0, AdminEmail, 0)})
  /\ limiter = NoLimiter
  /\ users = <<>>

(* a call ended: err is "none" or "exists" *)
UserSettled(op, email, err) ==
  result' = [op |-> op, err |-> err, email |-> email,
             before |-> Len(SelectSeq(users, LAMBDA user :
                                               user.email = email))]

(* UserRepository.create, to the throw or to the await of bcrypt.hash *)
UserRepository_create ==
  \E email \in EmailInputs :
     /\ CanBegin
     /\ Len(users) + BagCardinality(requests) < MaxUsers
     /\ IF existingUser(users, email)
        THEN /\ UserSettled("UserRepository.create", email, "exists")
             /\ UNCHANGED requests
        ELSE /\ requests' =
                  requests (+) SetToBag({Request("UserRepository.create",
                                                 "hash", 0, email, 0)})
             /\ result' = NoResult
     /\ UNCHANGED <<storeVars, limiter, users, now>>

(* UserRepository.create, from the hash to the return *)
UserRepository_create_hashed ==
  \E r \in InFlight :
     /\ r.op = "UserRepository.create"
     /\ users' = pushUser(users, r.input)
     /\ requests' = requests (-) SetToBag({r})
     /\ UserSettled("UserRepository.create", r.input, "none")
     /\ UNCHANGED <<storeVars, limiter, now>>

(* createDefaultUsers: the create of a default user returns from its     *)
(* hash, and the function waits for that return                           *)
createDefaultUsers_hashed ==
  \E r \in InFlight :
     /\ r.op = "createDefaultUsers"
     /\ r.pc = "hash"
     /\ users' = pushUser(users, r.input)
     /\ requests' = (requests (-) SetToBag({r}))
                      (+) SetToBag({[r EXCEPT !.pc = "created"]})
     /\ UserSettled("UserRepository.create", r.input, "none")
     /\ UNCHANGED <<storeVars, limiter, now>>

(* createDefaultUsers goes on after await this.create(...): to the create *)
(* of the test user, which throws or waits for its hash, or to its end    *)
createDefaultUsers_created ==
  \E r \in InFlight :
     /\ r.op = "createDefaultUsers"
     /\ r.pc = "created"
     /\ IF r.input = AdminEmail /\ ~existingUser(users, TestEmail)
        THEN /\ requests' =
                  (requests (-) SetToBag({r}))
                    (+) SetToBag({Request("createDefaultUsers", "hash",
                                          0, TestEmail, 0)})
             /\ result' = NoResult
        ELSE /\ requests' = requests (-) SetToBag({r})
             /\ IF r.input = AdminEmail
                THEN UserSettled("UserRepository.create", TestEmail,
                                 "exists")
                ELSE result' = NoResult
     /\ UNCHANGED <<storeVars, limiter, users, now>>

NextUsers ==
  \/ UserRepository_create
  \/ UserRepository_create_hashed
  \/ createDefaultUsers_hashed
  \/ createDefaultUsers_created

SpecUsers == InitUsers /\ [][NextUsers]_vars

(* C36: under any interleaving of calls of UserRepository.create, no two  *)
(* stored users have the same email, and a call that ends without error   *)
(* found no user with its email stored: of the calls with one email only  *)
(* one succeeds.                                                          *)
C36_EmailUnique ==
  /\ \A i, j \in 1 .. Len(users) :
       users[i].email = users[j].email => i = j
  /\ (result.op = "UserRepository.create" /\ result.err = "none")
       => result.before = 0

(* the part of C36 that holds: a call that finds its email stored when    *)
(* it starts ends with the already-exists error and stores nothing        *)
C36_ExistingRejected ==
  [][ \A email \in EmailInputs :
        (/\ existingUser(users, email)
         /\ result'.op = "UserRepository.create"
         /\ result'.email = email
         /\ result'.err = "exists")
          => users' = users ]_vars

====
